---- MODULE Spec2Model ----
(***************************************************************************)
(* OCR orchestration pipeline of mr-ahabib/OCR_Pipeline.                   *)
(*                                                                         *)
(*   app/services/ocr_service.py  _pipeline_pdf, _process_page,            *)
(*                                process_file   (path "docai")            *)
(*   app/service.py               process_file, _process_single_page,      *)
(*                                process_page   (path "local")            *)
(*   app/ocr/easyocr_engine.py    _filter_hallucinated_english             *)
(*   app/ocr/tesseract_engine.py  run_tesseract (EasyOCR ensemble rules)   *)
(*   app/ocr/ensemble.py          ensemble                                 *)
(*   app/services/ocr_service.py  detect_file_type, detect_language,       *)
(*                                select_ocr_engine, process_file_auto     *)
(*                                                                         *)
(* One document is processed per behaviour.  The asyncio event loop is a   *)
(* FIFO queue of callbacks (ready); the thread pool is a FIFO queue of     *)
(* work items (execQueue) served by cfg.pool workers (running).            *)
(***************************************************************************)
EXTENDS Integers, Sequences, FiniteSets, TLC

\* ------------------------------------------------------------------ bounds
MaxPages == 4
MaxBatch == 2
MaxLimit == 2
MaxPool == 2
MaxBad == 1
MaxUnrendered == 1

\* ------------------------------------------------------------ python values
\* A Python str is modelled by the sequence of its tokens; the token of a
\* page's text is the number of the source page whose image was recognised,
\* token 0 is the "\n\n" separator.  A Python tuple (text, confidence) is a
\* different value from the str text.
Str(toks) == [kind |-> "str", toks |-> toks, conf |-> 0]

Tuple(toks, c) == [kind |-> "tuple", toks |-> toks, conf |-> c]

NoResult == [page_number |-> 0, text |-> Str(<<>>), confidence |-> 0]

Min(a, b) == IF a < b THEN a ELSE b

RECURSIVE SumSeq(_)
SumSeq(s) == IF s = <<>> THEN 0 ELSE Head(s) + SumSeq(Tail(s))

\* ------------------------------------------------------------------- state
VARIABLES
  cfg,        \* the configuration and the document, fixed for a behaviour
  pc,         \* position of the document coroutine
  batch_start,\* loop variable of _pipeline_pdf
  all_tasks,  \* page numbers of the created page tasks, in creation order
  tstate,     \* page task -> none|created|waiting|granted|inflight|ok|failed
  tresult,    \* page task -> what its engine call returned
  tjpeg,      \* page task -> the source page whose image it was given
  sem,        \* asyncio.Semaphore._value
  semWaiters, \* asyncio.Semaphore._waiters (FIFO)
  execQueue,  \* ThreadPoolExecutor work queue (FIFO)
  running,    \* work items a worker thread is running
  ready,      \* event loop: callbacks to run (FIFO)
  bad,        \* number of degraded engine outcomes so far
  outcome,    \* what process_file hands to its caller
  completion, \* the last page task that finished, and whether the tasks have
              \* finished in strictly descending page order so far
  atConvStart,\* first page of a batch -> the page tasks that had finished when
              \* a worker started the batch's conversion
  atConvEnd,  \* first page of a batch -> the engine calls that had returned
              \* when the batch's conversion returned
  cin,        \* process_page alone: what the engines answer for the page
  cout,       \* process_page alone: what it returned
  cpc,        \* process_page alone: call | done
  arg,        \* a function called on its own: its arguments
  ret,        \* a function called on its own: what it returned
  fpc,        \* a function called on its own: idle | call | once | done
  readers,    \* easyocr_engine.readers: cache key -> engine handle
  callers,    \* the threads inside get_reader: langs, position, locals
  built,      \* the engine handles constructed so far
  docs,       \* the documents in process_file at the same time
  ent,        \* the enterprise's row: pages_used, total_pages
  reqs        \* the enterprise_ocr requests in the endpoint

pipeVars == <<cfg, pc, batch_start, all_tasks, tstate, tresult, tjpeg, sem, semWaiters,
              execQueue, running, ready, bad, outcome, completion, atConvStart,
              atConvEnd>>

cascadeVars == <<cin, cout, cpc>>

unitVars == <<arg, ret, fpc>>

readerVars == <<readers, callers, built>>

docVars == <<docs>>

entVars == <<ent, reqs>>

concVars == <<readerVars, docVars, entVars>>

callVars == <<cascadeVars, unitVars, concVars>>

vars == <<pipeVars, cascadeVars, unitVars, concVars>>

\* ------------------------------------------------------- the page converter
RECURSIVE SortedSeq(_)
SortedSeq(S) ==
  IF S = {} THEN <<>>
  ELSE LET m == CHOOSE x \in S : \A y \in S : x <= y
       IN <<m>> \o SortedSeq(S \ {m})

\* _convert_page_range / pdf_to_images: one image per page of the range that
\* the renderer (strict=False) produces an image for, in page order.
convert_page_range(first_page, last_page) ==
  SortedSeq({p \in first_page..last_page : p \in cfg.renders})

\* batch_end of _pipeline_pdf; app/service.py converts the whole document in
\* one call.
BatchEnd(bs) ==
  IF cfg.path = "docai"
  THEN Min(bs + cfg.CONVERT_BATCH - 1, cfg.total_pages)
  ELSE cfg.total_pages

\* ------------------------------------------------------------ engine calls
\* The recogniser is a function of the image: the text of source page j is
\* the token j, its token-level confidence is PageConf(j).
PageConf(j) == 100 - 5 * j

\* run_docai_page: the dict of a successful call.
run_docai_page(jpeg, page_number) ==
  [page_number |-> page_number, text |-> Str(<<jpeg>>), confidence |-> PageConf(jpeg)]

\* --------------------------------------------------------------- work items
ConvItem(first, last) == [kind |-> "conv", first |-> first, last |-> last, jpeg |-> 0]

PageItem(p, jpeg) == [kind |-> "page", first |-> p, last |-> p, jpeg |-> jpeg]

\* ------------------------------------------------------ event loop callbacks
ConvDone(first, jpegs) ==
  [kind |-> "conv", page |-> first, jpegs |-> jpegs, ok |-> TRUE, res |-> NoResult]

TaskStart(p) ==
  [kind |-> "start", page |-> p, jpegs |-> <<>>, ok |-> TRUE, res |-> NoResult]

Wake(p) ==
  [kind |-> "wake", page |-> p, jpegs |-> <<>>, ok |-> TRUE, res |-> NoResult]

EngineDone(p, ok, res) ==
  [kind |-> "engine", page |-> p, jpegs |-> <<>>, ok |-> ok, res |-> res]

\* ------------------------------------------------------------- aggregation
RECURSIVE InsertByPage(_, _)
InsertByPage(r, s) ==
  IF s = <<>> THEN <<r>>
  ELSE IF r.page_number < Head(s).page_number THEN <<r>> \o s
  ELSE <<Head(s)>> \o InsertByPage(r, Tail(s))

RECURSIVE SortDescending(_)
SortDescending(results) ==
  IF results = <<>> THEN <<>>
  ELSE LET rest == SortDescending(Tail(results))
           r == Head(results)
           k == Cardinality({i \in 1..Len(rest) : rest[i].page_number >= r.page_number})
       IN SubSeq(rest, 1, k) \o <<r>> \o SubSeq(rest, k + 1, Len(rest))

\* results.sort(key=lambda p: p["page_number"]) / sorted(results, key=x[0]):
\* a stable ascending sort.
RECURSIVE SortByPage(_)
SortByPage(results) ==
  IF results = <<>> THEN <<>>
  ELSE InsertByPage(results[Len(results)],
                    SortByPage(SubSeq(results, 1, Len(results) - 1)))

\* asyncio.gather(*tasks) of finished tasks: the results in the order of the
\* task list, whatever the order of completion.
Gather(tasks, tr) == [i \in 1..Len(tasks) |-> tr[tasks[i]]]

\* "\n\n".join(texts): a TypeError unless every item is a str.
JoinOk(texts) == \A i \in 1..Len(texts) : texts[i].kind = "str"

RECURSIVE JoinToks(_)
JoinToks(texts) ==
  IF texts = <<>> THEN <<>>
  ELSE IF Len(texts) = 1 THEN texts[1].toks
  ELSE texts[1].toks \o <<0>> \o JoinToks(Tail(texts))

Join(texts) == Str(JoinToks(texts))

NoOutcome ==
  [status |-> "none", text |-> Str(<<>>), pages |-> 0, all_pages |-> <<>>,
   pages_data |-> <<>>, conf_sum |-> 0, conf_n |-> 0]

\* process_file's except branch re-raises: the caller gets the exception.
ErrorOutcome == [NoOutcome EXCEPT !.status = "error"]

\* ocr_service.process_file after _pipeline_pdf returned all_pages.
\* confidence is sum(confs) / len(confs), kept as the pair (conf_sum, conf_n).
DocaiResult(all_pages) ==
  LET texts == [i \in 1..Len(all_pages) |-> all_pages[i].text]
      confs == [i \in 1..Len(all_pages) |-> all_pages[i].confidence]
  IN IF Len(all_pages) = 1
     THEN [status |-> "ok", text |-> texts[1], pages |-> 1, all_pages |-> all_pages,
           pages_data |-> <<>>, conf_sum |-> SumSeq(confs), conf_n |-> Len(confs)]
     ELSE [status |-> "ok", text |-> Join(texts), pages |-> Len(all_pages),
           all_pages |-> all_pages, pages_data |-> all_pages,
           conf_sum |-> SumSeq(confs), conf_n |-> Len(confs)]

\* app/service.process_file after gather: results_sorted, join, len(images).
LocalResult(results) ==
  LET results_sorted == SortByPage(results)
      texts == [i \in 1..Len(results_sorted) |-> results_sorted[i].text]
      confs == [i \in 1..Len(results_sorted) |-> results_sorted[i].confidence]
  IN IF JoinOk(texts)
     THEN [status |-> "ok", text |-> Join(texts), pages |-> Len(results),
           all_pages |-> results_sorted, pages_data |-> <<>>,
           conf_sum |-> SumSeq(confs), conf_n |-> Len(confs)]
     ELSE ErrorOutcome

\* _pipeline_pdf lines 330-332 followed by process_file.
pipeline_return(tasks, tr) ==
  IF cfg.path = "docai"
  THEN DocaiResult(SortByPage(Gather(tasks, tr)))
  ELSE LocalResult(Gather(tasks, tr))

Finished(ts) == {p \in DOMAIN ts : ts[p] \in {"ok", "failed"}}

\* asyncio.gather without return_exceptions: the first exception of a task is
\* raised to the awaiting coroutine; otherwise it returns once all are done.
GatherReadyFirst(ts, tasks) == \E i \in 1..Len(tasks) : ts[tasks[i]] \in {"ok", "failed"}

GatherReady(ts, tasks) == \A i \in 1..Len(tasks) : ts[tasks[i]] \in {"ok", "failed"}

GatherRaises(ts, tasks) == \E i \in 1..Len(tasks) : ts[tasks[i]] = "failed"

\* The document coroutine at "results = await asyncio.gather(*all_tasks)".
AwaitGather(ts, tr, tasks) ==
  IF GatherRaises(ts, tasks) THEN [pc |-> "error", outcome |-> ErrorOutcome]
  ELSE IF GatherReady(ts, tasks)
  THEN LET r == pipeline_return(tasks, tr)
       IN [pc |-> IF r.status = "ok" THEN "done" ELSE "error", outcome |-> r]
  ELSE [pc |-> "gather", outcome |-> NoOutcome]

\* ---------------------------------------------- the confidence cascade
\* run_docai(file_bytes) returns the tuple (doc.text or "", conf).
run_docai(x) == Tuple(x.docai_text, x.docai_conf)

\* The "good" threshold of pass 2 (the literal of "if conf < 90").
GOOD_CONF == 90

\* The confidence process_page gives to a page the remote fallback answered.
OVERRIDE_CONF == 100

\* Pass 2 of process_page: the raw pass replaces the result when it is
\* strictly better (Pass2TakesRaw: whenever it ran).
Pass2TakesRaw(x) ==
  IF x.c1 < GOOD_CONF
  THEN [text |-> x.t2, conf |-> x.c2, calls |-> <<"primary", "raw">>]
  ELSE [text |-> x.t1, conf |-> x.c1, calls |-> <<"primary">>]

Pass2(x) ==
  IF x.c1 < GOOD_CONF
  THEN IF x.c2 > x.c1
       THEN [text |-> x.t2, conf |-> x.c2, calls |-> <<"primary", "raw">>]
       ELSE [text |-> x.t1, conf |-> x.c1, calls |-> <<"primary", "raw">>]
  ELSE [text |-> x.t1, conf |-> x.c1, calls |-> <<"primary">>]

FallbackAlways(conf, threshold) == TRUE

\* Pass 3 of process_page: "if conf < settings.CONFIDENCE_THRESHOLD".
NeedsFallback(conf, threshold) == conf < threshold

\* process_page(image, langs, raw_bytes, mode): x holds what the engines
\* answer for the page (c1, t1: primary pass; c2, t2: raw pass; docai_*: the
\* remote call) and the configured threshold.  calls lists the strategies
\* invoked, in order.
process_page(x) ==
  LET local == Pass2(x)
  IN IF NeedsFallback(local.conf, x.threshold)
     THEN IF x.docai_ok
          THEN [text |-> run_docai(x), confidence |-> OVERRIDE_CONF,
                calls |-> local.calls \o <<"docai">>]
          ELSE [text |-> local.text, confidence |-> local.conf,
                calls |-> local.calls \o <<"docai">>]
     ELSE [text |-> local.text, confidence |-> local.conf, calls |-> local.calls]

\* What the engines answer for the image of source page j in the page
\* pipeline: Tesseract is a function of the image, the remote call may fail.
\* For a page of cfg.blank every Tesseract call fails: _run catches the
\* exception and returns ("", 0.0), and so does run_tesseract.
LocalInputs(j, docai_ok) ==
  IF j \in cfg.blank
  THEN [c1 |-> 0, t1 |-> Str(<<>>), c2 |-> 0, t2 |-> Str(<<>>),
        docai_ok |-> docai_ok, docai_text |-> <<j>>, docai_conf |-> 99,
        threshold |-> cfg.CONFIDENCE_THRESHOLD]
  ELSE [c1 |-> PageConf(j), t1 |-> Str(<<j>>), c2 |-> PageConf(j) + 3, t2 |-> Str(<<j>>),
        docai_ok |-> docai_ok, docai_text |-> <<j>>, docai_conf |-> 99,
        threshold |-> cfg.CONFIDENCE_THRESHOLD]

\* The value a page work item posts to the event loop.  fails: the DocAI call
\* made for the page raises.
PageWork(it, fails) ==
  IF cfg.path = "docai"
  THEN IF fails THEN EngineDone(it.first, FALSE, NoResult)
       ELSE EngineDone(it.first, TRUE, run_docai_page(it.jpeg, it.first))
  ELSE LET r == process_page(LocalInputs(it.jpeg, ~fails))
       IN EngineDone(it.first, TRUE,
                     [page_number |-> it.first, text |-> r.text, confidence |-> r.confidence])

\* Whether the page work calls DocAI at all.
CallsDocai(it) ==
  \/ cfg.path = "docai"
  \/ LET r == process_page(LocalInputs(it.jpeg, TRUE))
     IN \E i \in 1..Len(r.calls) : r.calls[i] = "docai"

\* ------------------------------------------------------------ configuration
\* settings.CONFIDENCE_THRESHOLD when the environment does not set it.
DEFAULT_CONFIDENCE_THRESHOLD == 90

Config(n, b, l, w, path, missing, maxbad) ==
  [total_pages |-> n, CONVERT_BATCH |-> b, MAX_PARALLEL |-> l, pool |-> w,
   path |-> path, renders |-> (1..n) \ missing, maxbad |-> maxbad, blank |-> {},
   CONFIDENCE_THRESHOLD |-> DEFAULT_CONFIDENCE_THRESHOLD]

\* The pages on which every Tesseract call fails: none, or the first page.
BlankPages == {{}, {1}}

WithBlank(c, b) == [c EXCEPT !.blank = b]

Configs ==
  { Config(n, b, l, w, "docai", m, MaxBad) :
      n \in 1..MaxPages, b \in 1..MaxBatch, l \in 1..MaxLimit, w \in 1..MaxPool,
      m \in {x \in SUBSET (1..MaxPages) : Cardinality(x) <= MaxUnrendered} }
  \cup
  { WithBlank(Config(n, 1, l, w, "local", m, MaxBad), b) :
      n \in 1..MaxPages, l \in 1..MaxLimit, w \in 1..MaxPool,
      m \in {x \in SUBSET (1..MaxPages) : Cardinality(x) <= MaxUnrendered},
      b \in BlankPages }

\* sem = asyncio.Semaphore(MAX_PARALLEL) / asyncio.Semaphore(MAX_PARALLEL_PAGES)
SemInitOffByOne(c) == c.MAX_PARALLEL + 1

SemInit(c) == c.MAX_PARALLEL

PipeInit(c) ==
  /\ cfg = c
  /\ pc = "start"
  /\ batch_start = 1
  /\ all_tasks = <<>>
  /\ tstate = [p \in 1..c.total_pages |-> "none"]
  /\ tresult = [p \in 1..c.total_pages |-> NoResult]
  /\ tjpeg = [p \in 1..c.total_pages |-> 0]
  /\ sem = SemInit(c)
  /\ semWaiters = <<>>
  /\ execQueue = <<>>
  /\ running = {}
  /\ ready = <<>>
  /\ bad = 0
  /\ outcome = NoOutcome
  /\ completion = [last |-> 0, descending |-> TRUE]
  /\ atConvStart = [p \in 1..c.total_pages |-> [started |-> FALSE, finished |-> {}]]
  /\ atConvEnd = [p \in 1..c.total_pages |-> [ended |-> FALSE, returned |-> {}]]

\* ------------------------------------------------------------------ actions
\* Page tasks whose engine call has returned on its worker thread.
EngineReturned ==
  Finished(tstate) \cup {ready[i].page : i \in {k \in 1..Len(ready) : ready[k].kind = "engine"}}

\* process_file counted the pages and _pipeline_pdf submits the conversion of
\* the first batch (app/service.py: of the whole document).
StartPipeline ==
  /\ pc = "start"
  /\ pc' = "convert"
  /\ execQueue' = Append(execQueue, ConvItem(1, BatchEnd(1)))
  /\ UNCHANGED <<callVars, cfg, batch_start, all_tasks, tstate, tresult, tjpeg, sem, semWaiters,
                 running, ready, bad, outcome, completion, atConvStart, atConvEnd>>

WorkerFreeBelowPool == Cardinality(running) < cfg.pool - 1

\* ThreadPoolExecutor: a worker thread is idle (max_workers threads in all).
WorkerFree == Cardinality(running) < cfg.pool

\* A free worker thread takes the next work item of the pool's queue.
WorkerStart ==
  /\ execQueue # <<>>
  /\ WorkerFree
  /\ LET it == Head(execQueue)
     IN /\ running' = running \cup {it}
        /\ execQueue' = Tail(execQueue)
        /\ atConvStart' = IF it.kind = "conv"
                          THEN [atConvStart EXCEPT ![it.first] =
                                  [started |-> TRUE, finished |-> Finished(tstate)]]
                          ELSE atConvStart
  /\ UNCHANGED <<callVars, cfg, pc, batch_start, all_tasks, tstate, tresult, tjpeg, sem, semWaiters,
                 ready, bad, outcome, completion, atConvEnd>>

\* _convert_page_range returns on its worker; the future's callback is queued
\* on the event loop.
ConvertFinish ==
  \E it \in running :
    /\ it.kind = "conv"
    /\ running' = running \ {it}
    /\ ready' = Append(ready, ConvDone(it.first, convert_page_range(it.first, it.last)))
    /\ atConvEnd' = [atConvEnd EXCEPT ![it.first] =
                       [ended |-> TRUE, returned |-> EngineReturned]]
    /\ UNCHANGED <<callVars, cfg, pc, batch_start, all_tasks, tstate, tresult, tjpeg, sem,
                   semWaiters, execQueue, bad, outcome, completion, atConvStart>>

\* run_docai_page / process_page returns or raises on its worker.
EngineFinish ==
  \E it \in running, fails \in BOOLEAN :
    /\ it.kind = "page"
    /\ fails => (bad < cfg.maxbad /\ CallsDocai(it))
    /\ running' = running \ {it}
    /\ ready' = Append(ready, PageWork(it, fails))
    /\ bad' = IF fails THEN bad + 1 ELSE bad
    /\ UNCHANGED <<callVars, cfg, pc, batch_start, all_tasks, tstate, tresult, tjpeg, sem,
                   semWaiters, execQueue, outcome, completion, atConvStart, atConvEnd>>

\* _pipeline_pdf resumes after "await loop.run_in_executor(... _convert_page_range
\* ...)": one task per image, then the next batch's conversion or the gather.
LoopConvDone ==
  /\ ready # <<>>
  /\ Head(ready).kind = "conv"
  /\ LET jpeg_batch == Head(ready).jpegs
         new == [i \in 1..Len(jpeg_batch) |-> batch_start + i - 1]
         newset == {new[i] : i \in 1..Len(new)}
         ts == [p \in DOMAIN tstate |-> IF p \in newset THEN "created" ELSE tstate[p]]
         tasks == all_tasks \o new
         more == BatchEnd(batch_start) < cfg.total_pages
         g == AwaitGather(ts, tresult, tasks)
     IN /\ all_tasks' = tasks
        /\ tstate' = ts
        /\ tjpeg' = [p \in DOMAIN tjpeg |->
                       IF p \in newset THEN jpeg_batch[p - batch_start + 1] ELSE tjpeg[p]]
        /\ ready' = Tail(ready) \o [i \in 1..Len(new) |-> TaskStart(new[i])]
        /\ IF more
           THEN /\ batch_start' = batch_start + cfg.CONVERT_BATCH
                /\ execQueue' = Append(execQueue,
                                       ConvItem(batch_start + cfg.CONVERT_BATCH,
                                                BatchEnd(batch_start + cfg.CONVERT_BATCH)))
                /\ UNCHANGED <<pc, outcome>>
           ELSE /\ pc' = g.pc
                /\ outcome' = g.outcome
                /\ UNCHANGED <<batch_start, execQueue>>
  /\ UNCHANGED <<callVars, cfg, tresult, sem, semWaiters, running, bad, completion, atConvStart,
                 atConvEnd>>

\* "async with sem" of _process_page / _process_single_page: the slot is free
\* when the semaphore is not locked.
CanAcquire == sem > 0 /\ semWaiters = <<>>

\* First step of a page task: take a slot and submit the engine call to the
\* thread pool, or queue on the semaphore.
LoopTaskStart ==
  /\ ready # <<>>
  /\ Head(ready).kind = "start"
  /\ LET p == Head(ready).page
     IN IF CanAcquire
        THEN /\ sem' = sem - 1
             /\ tstate' = [tstate EXCEPT ![p] = "inflight"]
             /\ execQueue' = Append(execQueue, PageItem(p, tjpeg[p]))
             /\ UNCHANGED semWaiters
        ELSE /\ semWaiters' = Append(semWaiters, p)
             /\ tstate' = [tstate EXCEPT ![p] = "waiting"]
             /\ UNCHANGED <<sem, execQueue>>
  /\ ready' = Tail(ready)
  /\ UNCHANGED <<callVars, cfg, pc, batch_start, all_tasks, tresult, tjpeg, running, bad, outcome,
                 completion, atConvStart, atConvEnd>>

\* Whether a page task gives its slot back when its engine call returned (ok)
\* or raised: "async with sem" runs sem.release() on both ways out.
ReleasesOnlyIfOk(ok) == ok

Releases(ok) == TRUE

\* A page task resumes with its engine call's result or exception: it leaves
\* "async with sem" (release: the slot goes to the first waiter, if any) and
\* finishes; a waiting gather sees the task done.
LoopEngineDone ==
  /\ ready # <<>>
  /\ Head(ready).kind = "engine"
  /\ LET e == Head(ready)
         p == e.page
         handoff == Releases(e.ok) /\ semWaiters # <<>>
         q == Head(semWaiters)
         ts == [x \in DOMAIN tstate |->
                  IF x = p THEN (IF e.ok THEN "ok" ELSE "failed")
                  ELSE IF handoff /\ x = q THEN "granted"
                  ELSE tstate[x]]
         tr == [tresult EXCEPT ![p] = e.res]
         g == AwaitGather(ts, tr, all_tasks)
     IN /\ tstate' = ts
        /\ tresult' = tr
        /\ completion' = [last |-> p,
                         descending |-> completion.descending
                                        /\ (completion.last = 0 \/ p < completion.last)]
        /\ IF handoff
           THEN /\ semWaiters' = Tail(semWaiters)
                /\ ready' = Append(Tail(ready), Wake(q))
                /\ UNCHANGED sem
           ELSE /\ sem' = IF Releases(e.ok) THEN sem + 1 ELSE sem
                /\ ready' = Tail(ready)
                /\ UNCHANGED semWaiters
        /\ IF pc = "gather"
           THEN pc' = g.pc /\ outcome' = g.outcome
           ELSE UNCHANGED <<pc, outcome>>
  /\ UNCHANGED <<callVars, cfg, batch_start, all_tasks, tjpeg, execQueue, running, bad,
                 atConvStart, atConvEnd>>

\* A page task woken by a release holds its slot and submits its engine call.
LoopWake ==
  /\ ready # <<>>
  /\ Head(ready).kind = "wake"
  /\ LET p == Head(ready).page
     IN /\ tstate' = [tstate EXCEPT ![p] = "inflight"]
        /\ execQueue' = Append(execQueue, PageItem(p, tjpeg[p]))
  /\ ready' = Tail(ready)
  /\ UNCHANGED <<callVars, cfg, pc, batch_start, all_tasks, tresult, tjpeg, sem, semWaiters,
                 running, bad, outcome, completion, atConvStart, atConvEnd>>

PipeNext ==
  \/ StartPipeline
  \/ WorkerStart
  \/ ConvertFinish
  \/ EngineFinish
  \/ LoopConvDone
  \/ LoopTaskStart
  \/ LoopEngineDone
  \/ LoopWake

\* ------------------------------------------------- process_page on its own
\* Confidences are percentages; the values around the two thresholds.
Confidences == {0, 50, 85, 89, 90, 92, 95, 100}

\* Values of CONFIDENCE_THRESHOLD (an environment setting; default 90).
Thresholds == {80, DEFAULT_CONFIDENCE_THRESHOLD, 95}

Texts == {<<>>, <<"Hello">>}

CascadeInputs ==
  [c1 : Confidences, t1 : {Str(<<>>), Str(<<"primary">>)},
   c2 : Confidences, t2 : {Str(<<>>), Str(<<"raw">>)},
   docai_ok : BOOLEAN, docai_text : Texts, docai_conf : {99},
   threshold : Thresholds]

NoInput ==
  [c1 |-> 0, t1 |-> Str(<<>>), c2 |-> 0, t2 |-> Str(<<>>), docai_ok |-> FALSE,
   docai_text |-> <<>>, docai_conf |-> 0, threshold |-> DEFAULT_CONFIDENCE_THRESHOLD]

NoOutput == [text |-> Str(<<>>), confidence |-> 0, calls |-> <<>>]

CascadeIdle == cin = NoInput /\ cout = NoOutput /\ cpc = "idle"

CallProcessPage ==
  /\ cpc = "call"
  /\ cout' = process_page(cin)
  /\ cpc' = "done"
  /\ UNCHANGED <<cin, pipeVars, unitVars, concVars>>

\* ------------------------------------------------ the hallucination filter
\* A text is a sequence of characters.  "BN" is one character of the Bangla
\* block (BANGLA_PATTERN), "AR" one of the Arabic block (ARABIC_PATTERN), "k"
\* and "g" are Latin letters (ENGLISH_PATTERN), "1" is a digit, " " is
\* whitespace.
MaxTextLen == 5

Alphabet == {" ", "BN", "AR", "k", "g", "1"}

BANGLA_PATTERN == {"BN"}

ENGLISH_PATTERN == {"k", "g"}

ARABIC_PATTERN == {"AR"}

IsSpace(ch) == ch = " "

IsDigit(ch) == ch = "1"

NotEnglish(ch) == ch \notin ENGLISH_PATTERN

\* pattern.search(token)
Search(token, pattern) == \E i \in 1..Len(token) : token[i] \in pattern

\* len(re.findall(pattern, token))
CountOf(token, pattern) == Cardinality({i \in 1..Len(token) : token[i] \in pattern})

\* re.match(r'^\d+$', token)
AllDigits(token) == token # <<>> /\ \A i \in 1..Len(token) : IsDigit(token[i])

\* re.match(r'^\d+[.,:]?$', word)
NumberWithPunct(word) ==
  \/ AllDigits(word)
  \/ /\ Len(word) >= 2
     /\ AllDigits(SubSeq(word, 1, Len(word) - 1))
     /\ word[Len(word)] \in {".", ",", ":"}

\* The members of the allow-list that the alphabet can spell.
ALLOWED_TOKENS == {<<"k", "g">>}

\* str.strip()
RECURSIVE LStrip(_)
LStrip(s) == IF s # <<>> /\ IsSpace(Head(s)) THEN LStrip(Tail(s)) ELSE s

RECURSIVE RStrip(_)
RStrip(s) ==
  IF s # <<>> /\ IsSpace(s[Len(s)]) THEN RStrip(SubSeq(s, 1, Len(s) - 1)) ELSE s

Strip(s) == RStrip(LStrip(s))

\* str.split(): the maximal runs of non-whitespace characters.
RECURSIVE SplitFrom(_, _)
SplitFrom(s, cur) ==
  IF s = <<>> THEN (IF cur = <<>> THEN <<>> ELSE <<cur>>)
  ELSE IF IsSpace(Head(s))
       THEN (IF cur = <<>> THEN <<>> ELSE <<cur>>) \o SplitFrom(Tail(s), <<>>)
       ELSE SplitFrom(Tail(s), Append(cur, Head(s)))

Split(s) == SplitFrom(s, <<>>)

\* ' '.join(tokens)
RECURSIVE JoinSpace(_)
JoinSpace(tokens) ==
  IF tokens = <<>> THEN <<>>
  ELSE IF Len(tokens) = 1 THEN tokens[1]
  ELSE tokens[1] \o <<" ">> \o JoinSpace(Tail(tokens))

\* re.sub(r' {2,}', ' ', result)
RECURSIVE CollapseSpaces(_)
CollapseSpaces(s) ==
  IF Len(s) < 2 THEN s
  ELSE IF IsSpace(s[1]) /\ IsSpace(s[2]) THEN CollapseSpaces(Tail(s))
  ELSE <<Head(s)>> \o CollapseSpaces(Tail(s))

\* re.sub(r'[A-Za-z]', '', token) (RemoveFirstEnglish: with count=1)
RECURSIVE RemoveFirstEnglish(_)
RemoveFirstEnglish(token) ==
  IF token = <<>> THEN <<>>
  ELSE IF Head(token) \in ENGLISH_PATTERN THEN Tail(token)
  ELSE <<Head(token)>> \o RemoveFirstEnglish(Tail(token))

RemoveEnglish(token) == SelectSeq(token, NotEnglish)

\* _filter_hallucinated_english_token(token, langs)
filter_hallucinated_english_token(token, langs) ==
  LET has_bangla == Search(token, BANGLA_PATTERN)
      has_arabic == Search(token, ARABIC_PATTERN)
      has_english == Search(token, ENGLISH_PATTERN)
      bangla_chars == CountOf(token, BANGLA_PATTERN)
      english_chars == CountOf(token, ENGLISH_PATTERN)
  IN IF token = <<>> THEN token
     ELSE IF "en" \in langs THEN token
     ELSE IF "bn" \in langs /\ has_english /\ ~has_bangla
     THEN (IF AllDigits(token) THEN token
           ELSE IF token \in ALLOWED_TOKENS THEN token
           ELSE <<>>)
     ELSE IF "bn" \in langs /\ has_english /\ has_bangla
     THEN (IF 10 * english_chars > 3 * (bangla_chars + english_chars)
           THEN Strip(RemoveEnglish(token))
           ELSE token)
     ELSE IF "ar" \in langs /\ has_english /\ ~has_arabic
     THEN (IF AllDigits(token) THEN token ELSE <<>>)
     ELSE IF "ar" \in langs /\ has_english /\ has_arabic
     THEN Strip(RemoveEnglish(token))
     ELSE token

\* filtered_tokens of _filter_hallucinated_english
RECURSIVE FilteredTokens(_, _)
FilteredTokens(tokens, langs) ==
  IF tokens = <<>> THEN <<>>
  ELSE LET cleaned == filter_hallucinated_english_token(Head(tokens), langs)
       IN (IF cleaned # <<>> THEN <<cleaned>> ELSE <<>>)
          \o FilteredTokens(Tail(tokens), langs)

\* The sentence-level pass keeps a word unless it has a Latin letter and no
\* Bangla character and is not a number.
KeepsWord(word) ==
  (Search(word, ENGLISH_PATTERN) /\ ~Search(word, BANGLA_PATTERN))
    => NumberWithPunct(word)

\* _filter_hallucinated_english(text, langs)
filter_hallucinated_english(text, langs) ==
  IF text = <<>> THEN text
  ELSE IF "en" \in langs THEN text
  ELSE LET result == JoinSpace(FilteredTokens(Split(text), langs))
           result2 == IF "bn" \in langs
                      THEN JoinSpace(SelectSeq(Split(result), KeepsWord))
                      ELSE result
       IN Strip(CollapseSpaces(result2))

\* The script sets a caller requests.
LangSets == {{"bn"}, {"ar"}, {"bn", "ar"}, {"bn", "en"}}

RECURSIVE TextsOfLen(_)
TextsOfLen(n) ==
  IF n = 0 THEN {<<>>}
  ELSE {Append(t, ch) : t \in TextsOfLen(n - 1), ch \in Alphabet}

FilterInputs ==
  {[text |-> t, langs |-> S] :
     t \in UNION {TextsOfLen(n) : n \in 0..MaxTextLen}, S \in LangSets}

NoArg == [text |-> <<>>, langs |-> {}]

NoRet == [out |-> <<>>, again |-> <<>>]

UnitIdle == arg = NoArg /\ ret = NoRet /\ fpc = "idle"

\* The filter is applied to the text.
CallFilter ==
  /\ fpc = "call"
  /\ ret' = [ret EXCEPT !.out = filter_hallucinated_english(arg.text, arg.langs)]
  /\ fpc' = "once"
  /\ UNCHANGED <<arg, pipeVars, cascadeVars, concVars>>

\* The filter is applied to its own output.
CallFilterAgain ==
  /\ fpc = "once"
  /\ ret' = [ret EXCEPT !.again = filter_hallucinated_english(ret.out, arg.langs)]
  /\ fpc' = "done"
  /\ UNCHANGED <<arg, pipeVars, cascadeVars, concVars>>

\* ------------------------------------------------------ the ensemble merge
\* weighted_confidence(t_conf, e_conf) of app.utils.confidence: a weighted
\* mean of the two confidences; w of Weights halves go to the first.
Weights == {0, 1, 2}

weighted_confidence(t_conf, e_conf, w) == (w * t_conf + (2 - w) * e_conf) \div 2

\* ensemble(t_text, t_conf, e_text, e_conf)
ensemble(t_text, t_conf, e_text, e_conf, w) ==
  [text |-> IF t_conf >= e_conf THEN t_text ELSE e_text,
   conf |-> weighted_confidence(t_conf, e_conf, w)]

\* The literals of the EasyOCR ensemble rules of run_tesseract.
EASY_MARGIN == 2

WEAK_CONF == 85

LONGER_MIN_CONF == 50

\* bool(text): a str is true when it is not empty.
Truthy(text) == text # <<>>

\* text and len(text.strip()) > 0
HasContent(text) == Truthy(text) /\ Len(Strip(text)) > 0

ClearlyStrongerNoMargin(easy_conf, best_conf) == easy_conf > best_conf

\* easy_conf > best_conf + 2
ClearlyStronger(easy_conf, best_conf) == easy_conf > best_conf + EASY_MARGIN

\* The if/elif chain of run_tesseract that picks between the best Tesseract
\* result and the EasyOCR result.
easyocr_select(best_text, best_conf, easy_text, easy_conf) ==
  IF ~HasContent(best_text) /\ HasContent(easy_text)
  THEN [text |-> easy_text, conf |-> easy_conf]
  ELSE IF Truthy(easy_text) /\ ClearlyStronger(easy_conf, best_conf)
  THEN [text |-> easy_text, conf |-> easy_conf]
  ELSE IF Truthy(easy_text) /\ best_conf < WEAK_CONF /\ easy_conf >= best_conf - EASY_MARGIN
  THEN [text |-> easy_text, conf |-> easy_conf]
  ELSE IF /\ Truthy(easy_text)
          /\ Len(Strip(easy_text)) > Len(Strip(best_text)) * 2
          /\ easy_conf >= LONGER_MIN_CONF
  THEN [text |-> easy_text, conf |-> easy_conf]
  ELSE [text |-> best_text, conf |-> best_conf]

\* The texts and confidences of the two candidates.
MergeTexts == {<<>>, <<"x">>, <<"y">>, <<"z", "z", "z">>}

MergeConfs == {0, 48, 50, 52, 53, 83, 85, 87, 88}

MergeInputs ==
  [a_text : MergeTexts, a_conf : MergeConfs, b_text : MergeTexts, b_conf : MergeConfs,
   w : Weights]

\* Both merges of a first candidate with a second.
Merge(t1, c1, t2, c2, w) ==
  [ens |-> ensemble(t1, c1, t2, c2, w), sel |-> easyocr_select(t1, c1, t2, c2)]

\* The candidates are merged, A first.
CallMerge ==
  /\ fpc = "call"
  /\ ret' = [ret EXCEPT !.out = Merge(arg.a_text, arg.a_conf, arg.b_text, arg.b_conf, arg.w)]
  /\ fpc' = "once"
  /\ UNCHANGED <<arg, pipeVars, cascadeVars, concVars>>

\* The candidates are merged, B first.
CallMergeSwapped ==
  /\ fpc = "once"
  /\ ret' = [ret EXCEPT !.again = Merge(arg.b_text, arg.b_conf, arg.a_text, arg.a_conf, arg.w)]
  /\ fpc' = "done"
  /\ UNCHANGED <<arg, pipeVars, cascadeVars, concVars>>

\* ------------------------------------------------------- request routing
\* A file is the first bytes of its content (head, at most 12 of them), its
\* length, whether PIL's Image.open can open it, and the text a recogniser
\* extracts from it.
MISTRAL_MAX_FILE_BYTES == 52428800

COMPRESS_THRESHOLD_BYTES == 47185920

\* detect_file_type: "if len(file_bytes) < 10".
MIN_DETECT_LEN == 10

\* file_bytes.startswith(prefix)
StartsWith(head, prefix) ==
  Len(head) >= Len(prefix) /\ SubSeq(head, 1, Len(prefix)) = prefix

\* prefix in file_bytes[:12]
Contains(head, part) ==
  \E i \in 1..(Len(head) - Len(part) + 1) : SubSeq(head, i, i + Len(part) - 1) = part

\* The magic numbers of detect_file_type, as byte values.
PDF_MAGIC == <<37, 80, 68, 70>>

IMAGE_MAGICS ==
  { <<255, 216, 255>>, <<137, 80, 78, 71>>, <<71, 73, 70, 56, 55, 97>>,
    <<71, 73, 70, 56, 57, 97>>, <<66, 77>>, <<73, 73, 42, 0>>, <<77, 77, 0, 42>> }

RIFF == <<82, 73, 70, 70>>

WEBP == <<87, 69, 66, 80>>

detect_file_type_any_length(file) ==
  IF StartsWith(file.head, PDF_MAGIC) THEN "pdf"
  ELSE IF \E m \in IMAGE_MAGICS : StartsWith(file.head, m) THEN "image"
  ELSE IF StartsWith(file.head, RIFF) /\ Contains(file.head, WEBP) THEN "image"
  ELSE "unknown"

\* detect_file_type(file_bytes)
detect_file_type(file) ==
  IF file.len < MIN_DETECT_LEN THEN "unknown"
  ELSE IF StartsWith(file.head, PDF_MAGIC) THEN "pdf"
  ELSE IF \E m \in IMAGE_MAGICS : StartsWith(file.head, m) THEN "image"
  ELSE IF StartsWith(file.head, RIFF) /\ Contains(file.head, WEBP) THEN "image"
  ELSE "unknown"

\* langdetect reports a probability (in percent) per language.
SIGNIFICANT_PROB == 20

\* detect_language: "len(text.strip()) < 10".
MIN_DETECT_TEXT == 10

\* _LANG_NAMES.get(lang, lang), for the languages of the model.
LangName(lang) ==
  IF lang = "en" THEN "english"
  ELSE IF lang = "bn" THEN "bangla"
  ELSE IF lang = "fr" THEN "french"
  ELSE lang

IsSignificant(p) == p.prob >= SIGNIFICANT_PROB

\* detect_language(text): text.len is len(text.strip()), text.probs is what
\* detect_langs(text) answers, text.raises whether it raises.
detect_language(text) ==
  IF text.len < MIN_DETECT_TEXT THEN [langs |-> <<"en">>, mode |-> "english"]
  ELSE IF text.raises THEN [langs |-> <<"en">>, mode |-> "english"]
  ELSE LET significant == IF SelectSeq(text.probs, IsSignificant) = <<>>
                          THEN SubSeq(text.probs, 1, 1)
                          ELSE SelectSeq(text.probs, IsSignificant)
           langs == [i \in 1..Len(significant) |-> significant[i].lang]
       IN [langs |-> langs,
           mode |-> IF Len(langs) = 1 THEN LangName(langs[1]) ELSE "mixed"]

\* max(0, (subscription_pages_total or 0) - (subscription_pages_used or 0))
subscription_pages_remaining(user) ==
  IF user.total - user.used > 0 THEN user.total - user.used ELSE 0

has_subscription_pages_total(user) == user.total > 0

\* User.has_active_subscription
has_active_subscription(user) == subscription_pages_remaining(user) > 0

\* select_ocr_engine(user)
select_ocr_engine(user) ==
  IF user.kind = "None" THEN "docai"
  ELSE IF user.kind = "FreeTrialUser" THEN "docai"
  ELSE IF user.kind = "User" /\ user.role \in {"super_user", "admin"} THEN "mistral"
  ELSE IF user.kind = "User" /\ has_active_subscription(user) THEN "mistral"
  ELSE "docai"

\* What a processing function hands to its caller: a result dict, or an
\* exception with its message.  calls lists the engine families used, sent
\* the length of the bytes each of them was given.
NoText == [len |-> 0, probs |-> <<>>, raises |-> FALSE]

Raised(message, calls) ==
  [status |-> "error", error |-> message, text |-> NoText, languages |-> <<>>,
   mode |-> "", engine |-> "", calls |-> calls, sent |-> <<>>]

Returned(text, langs, mode, engine, calls) ==
  [status |-> "ok", error |-> "", text |-> text, languages |-> langs,
   mode |-> mode, engine |-> engine, calls |-> calls, sent |-> <<>>]

\* The engine calls of r were made with the bytes of file.
SentBytes(r, file) == [r EXCEPT !.sent = [i \in 1..Len(r.calls) |-> file.len]]

\* ocr_service.process_file(file_bytes, langs, mode): the DocAI family.
process_file(file, langs, mode, env) ==
  SentBytes(IF detect_file_type(file) = "pdf"
            THEN (IF env.docai_ok
                  THEN Returned(file.text, langs, mode, "Google Document AI", <<"docai">>)
                  ELSE Raised("DocAI call failed", <<"docai">>))
            ELSE IF ~file.opens
            THEN Raised("Unsupported file format", <<>>)
            ELSE IF env.docai_ok
            THEN Returned(file.text, langs, mode, "Google Document AI", <<"docai">>)
            ELSE Raised("DocAI call failed", <<"docai">>),
            file)

\* process_file_mistral(file_bytes, langs, mode): env.mistral is "ok" or the
\* message of the exception run_mistral_ocr raises.
process_file_mistral(file, langs, mode, env) ==
  SentBytes(IF detect_file_type(file) = "unknown"
            THEN Raised("Unsupported file format", <<>>)
            ELSE IF env.mistral = "ok"
            THEN Returned(file.text, langs, mode, "Mistral OCR", <<"mistral">>)
            ELSE Raised(env.mistral, <<"mistral">>),
            file)

\* compress_for_mistral(file_bytes, file_type): the length of what it returns.
compress_for_mistral(file, file_type, env) ==
  IF file.len <= COMPRESS_THRESHOLD_BYTES THEN file.len
  ELSE IF file_type \in {"pdf", "image"} /\ env.compresses THEN COMPRESS_THRESHOLD_BYTES
  ELSE file.len

IsSizeErrorOnlyStatus(err_str) == err_str = "413"

\* "413" in err_str or "Payload Too Large" in err_str or "Request size
\* limit" in err_str
IsSizeError(err_str) == err_str \in {"413", "Payload Too Large", "Request size limit"}

\* The bytes process_file_auto would send to Mistral: their length.
MistralLen(file, env) ==
  IF file.len > COMPRESS_THRESHOLD_BYTES
  THEN compress_for_mistral(file, detect_file_type(file), env)
  ELSE file.len

ExceedsMistralLimitOffByOne(n) == n > MISTRAL_MAX_FILE_BYTES + 1

\* len(mistral_bytes) > MISTRAL_MAX_FILE_BYTES
ExceedsMistralLimit(n) == n > MISTRAL_MAX_FILE_BYTES

\* "result['languages'] = detected_langs; result['mode'] = detected_mode"
OverrideWithDetected(result, detected) ==
  [result EXCEPT !.languages = detected.langs, !.mode = detected.mode]

\* process_file_auto(file_bytes, langs, mode, user)
process_file_auto(file, langs, mode, user, env) ==
  LET hint_langs == <<"en", "bn">>
      hint_mode == "mixed"
      docai == process_file(file, hint_langs, hint_mode, env)
      mistral == process_file_mistral([file EXCEPT !.len = MistralLen(file, env)],
                                      hint_langs, hint_mode, env)
      result ==
        IF select_ocr_engine(user) = "mistral"
        THEN IF ExceedsMistralLimit(MistralLen(file, env)) THEN docai
             ELSE IF mistral.status = "ok" THEN mistral
             ELSE IF IsSizeError(mistral.error)
                  THEN [docai EXCEPT !.calls = mistral.calls \o docai.calls,
                                     !.sent = mistral.sent \o docai.sent]
                  ELSE mistral
        ELSE docai
  IN IF result.status = "ok"
     THEN OverrideWithDetected(result, detect_language(result.text))
     ELSE result

\* -------------------------------------------------- requests of the model
Heads ==
  { <<>>,
    <<104, 101, 108, 108, 111>>,
    <<37, 80, 68, 70, 45>>,
    <<66, 77, 0, 0, 0, 0, 0, 0, 0>>,
    <<104, 101, 108, 108, 111, 32, 119, 111, 114, 108>>,
    <<37, 80, 68, 70, 45, 49, 46, 52, 10, 37, 226, 227>>,
    <<255, 216, 255, 224, 0, 16, 74, 70, 73, 70, 0, 1>>,
    <<137, 80, 78, 71, 13, 10, 26, 10, 0, 0, 0, 13>>,
    <<71, 73, 70, 56, 57, 97, 1, 0, 1, 0, 128, 0>>,
    <<82, 73, 70, 70, 36, 0, 0, 0, 87, 69, 66, 80>>,
    <<82, 73, 70, 70, 36, 0, 0, 0, 87, 65, 86, 69>>,
    <<73, 73, 42, 0, 8, 0, 0, 0, 0, 0, 0, 0>>,
    <<0, 0, 1, 0, 1, 0, 16, 16, 0, 0, 1, 0>> }

HEAD_LEN == 12

\* A content shorter than 12 bytes is its own head.
FileLens(head) ==
  IF Len(head) < HEAD_LEN THEN {Len(head)}
  ELSE {HEAD_LEN, COMPRESS_THRESHOLD_BYTES + 1, MISTRAL_MAX_FILE_BYTES + 1}

DocTexts ==
  { NoText,
    [len |-> 5, probs |-> <<[lang |-> "bn", prob |-> 99]>>, raises |-> FALSE],
    [len |-> 20, probs |-> <<[lang |-> "bn", prob |-> 99]>>, raises |-> FALSE],
    [len |-> 20, probs |-> <<[lang |-> "bn", prob |-> 60], [lang |-> "en", prob |-> 39]>>,
     raises |-> FALSE],
    [len |-> 20, probs |-> <<[lang |-> "en", prob |-> 85], [lang |-> "fr", prob |-> 14]>>,
     raises |-> FALSE],
    [len |-> 20, probs |-> <<>>, raises |-> TRUE] }

Files ==
  { [head |-> h, len |-> n, opens |-> o, text |-> t] :
      h \in Heads, n \in UNION {FileLens(x) : x \in Heads}, o \in BOOLEAN, t \in DocTexts }

\* The files that exist: the length fits the head, Image.open opens no PDF
\* and no content without a header.
IsFile(f) ==
  /\ f.len \in FileLens(f.head)
  /\ f.opens => (f.len >= HEAD_LEN /\ ~StartsWith(f.head, PDF_MAGIC))

NoUser == [kind |-> "None", role |-> "", total |-> 0, used |-> 0]

Users ==
  { NoUser, [NoUser EXCEPT !.kind = "FreeTrialUser"] }
  \cup [kind : {"User"}, role : {"user", "admin", "super_user"},
        total : {0, 1, 5, 10}, used : {0, 1, 5, 7, 12}]

\* The caller's hint: (langs, mode) of OCR_MODES.
Hints ==
  { [langs |-> <<"en">>, mode |-> "english"], [langs |-> <<"bn">>, mode |-> "bangla"] }

Envs ==
  [docai_ok : BOOLEAN, compresses : BOOLEAN,
   mistral : {"ok", "413", "Payload Too Large", "Request size limit", "Unauthorized"}]

\* One caller of each tier.
TierUsers ==
  { NoUser,
    [kind |-> "User", role |-> "user", total |-> 5, used |-> 5],
    [kind |-> "User", role |-> "user", total |-> 5, used |-> 1],
    [kind |-> "User", role |-> "admin", total |-> 0, used |-> 0] }

\* Two requests for the same bytes and caller, with the hints hint and hint2.
Requests ==
  { [entry |-> e, file |-> f, user |-> u, hint |-> h, hint2 |-> h2, env |-> v] :
      e \in {"process_file_auto", "process_file"},
      f \in {x \in Files : IsFile(x)}, u \in TierUsers, h \in Hints, h2 \in Hints,
      v \in Envs }

Handle(req, hint) ==
  IF req.entry = "process_file_auto"
  THEN process_file_auto(req.file, hint.langs, hint.mode, req.user, req.env)
  ELSE process_file(req.file, hint.langs, hint.mode, req.env)

\* The request is processed with the first hint.
CallEntry ==
  /\ fpc = "call"
  /\ ret' = [ret EXCEPT !.out = Handle(arg, arg.hint)]
  /\ fpc' = "once"
  /\ UNCHANGED <<arg, pipeVars, cascadeVars, concVars>>

\* The same bytes are processed for the same caller with the second hint.
CallEntryAgain ==
  /\ fpc = "once"
  /\ ret' = [ret EXCEPT !.again = Handle(arg, arg.hint2)]
  /\ fpc' = "done"
  /\ UNCHANGED <<arg, pipeVars, cascadeVars, concVars>>

\* select_ocr_engine is called for a caller.
CallSelect ==
  /\ fpc = "call"
  /\ ret' = [ret EXCEPT !.out = select_ocr_engine(arg)]
  /\ fpc' = "once"
  /\ UNCHANGED <<arg, pipeVars, cascadeVars, concVars>>

\* select_ocr_engine is called again for the same caller.
CallSelectAgain ==
  /\ fpc = "once"
  /\ ret' = [ret EXCEPT !.again = select_ocr_engine(arg)]
  /\ fpc' = "done"
  /\ UNCHANGED <<arg, pipeVars, cascadeVars, concVars>>

\* ------------------------------------------------- the document confidence
\* Confidences of this section are in hundredths of a percentage point, so
\* that round(x, 2) is a rounding to an integer; a document confidence is the
\* rational num / den.
MaxDocPages == 3

ConfValues == {0, 8550, 9000, 9001, 10000}

Abs(x) == IF x < 0 THEN 0 - x ELSE x

\* sum(confs) / len(confs) if confs else 0.0
avg_conf(conf_sum, conf_n) ==
  IF conf_n = 0 THEN [num |-> 0, den |-> 1] ELSE [num |-> conf_sum, den |-> conf_n]

\* The quotient rounded down to a whole number of hundredths.
FloorHundredths(s, n, tie_up) == s \div n

\* round(s / n, 2): the nearest hundredth; when s / n lies exactly between
\* two hundredths the binary float decides, either neighbour can come out.
RoundHundredths(s, n, tie_up) ==
  LET q == s \div n
      r == s % n
  IN IF 2 * r < n THEN q
     ELSE IF 2 * r > n THEN q + 1
     ELSE IF tie_up THEN q + 1 ELSE q

\* _run_mistral_ocr_sync: avg_conf over page_confidences.
mistral_avg_conf(page_confidences, tie_up) ==
  IF page_confidences = <<>> THEN 0
  ELSE RoundHundredths(SumSeq(page_confidences), Len(page_confidences), tie_up)

\* The page dicts of a document whose pages have the confidences confs.
PagesOf(confs) ==
  [i \in 1..Len(confs) |-> [page_number |-> i, text |-> Str(<<i>>), confidence |-> confs[i]]]

\* The "confidence" entry of the result dict of each processing path.
DocumentConfidence(path, confs, tie_up) ==
  CASE path = "docai" ->
         LET r == DocaiResult(PagesOf(confs)) IN avg_conf(r.conf_sum, r.conf_n)
    [] path = "image" -> [num |-> confs[1], den |-> 1]
    [] path = "local" ->
         LET r == LocalResult(PagesOf(confs)) IN avg_conf(r.conf_sum, r.conf_n)
    [] path = "mistral" -> [num |-> mistral_avg_conf(confs, tie_up), den |-> 1]

RECURSIVE ConfsOfLen(_)
ConfsOfLen(n) ==
  IF n = 0 THEN {<<>>}
  ELSE {Append(s, c) : s \in ConfsOfLen(n - 1), c \in ConfValues}

\* A document: the path that processes it and its pages' confidences; the
\* image branch always has one page.
Documents ==
  {d \in [path : {"docai", "image", "local", "mistral"},
          confs : UNION {ConfsOfLen(n) : n \in 0..MaxDocPages},
          tie_up : BOOLEAN] :
     d.path = "image" => Len(d.confs) = 1}

\* One document is processed and its result dict built.
CallAggregate ==
  /\ fpc = "call"
  /\ ret' = [ret EXCEPT !.out = DocumentConfidence(arg.path, arg.confs, arg.tie_up)]
  /\ fpc' = "done"
  /\ UNCHANGED <<arg, pipeVars, cascadeVars, concVars>>

\* ------------------------------------------------- the engine-handle cache
\* easyocr_engine.readers is a module-level dict; get_reader is called from
\* process_page, which app/service.py runs on one thread per page task
\* (asyncio.to_thread).  Each caller goes through get_reader statement by
\* statement; other threads run in between.
MaxCallers == 2

SUPPORTED == {"en", "bn", "ar"}

CallerLangs == {<<"bn">>, <<"bn", "en">>, <<"en", "bn">>, <<"fr">>}

\* langs = [l for l in langs if l in SUPPORTED]; ["en"] when nothing is left.
SupportedLangs(langs) ==
  LET kept == SelectSeq(langs, LAMBDA l : l \in SUPPORTED)
  IN IF kept = <<>> THEN <<"en">> ELSE kept

\* The cache key: "bn_only" for ['bn'], else "_".join(sorted(langs)); a key
\* is modelled by the set of the parts joined.
ReaderKey(langs) ==
  LET kept == SupportedLangs(langs)
  IN IF kept = <<"bn">> THEN {"bn_only"}
     ELSE {kept[i] : i \in 1..Len(kept)}

ReaderKeys == {ReaderKey(l) : l \in CallerLangs}

NoHandle == [key |-> {}, id |-> 0]

\* key not in readers
InReaders(key) == readers[key] # NoHandle

NoCaller == [langs |-> <<>>, pc |-> "idle", made |-> NoHandle, got |-> NoHandle]

\* The cache and its callers when get_reader is not exercised.
ReadersIdle ==
  /\ readers = [k \in ReaderKeys |-> NoHandle]
  /\ callers = <<>>
  /\ built = {}

\* if key not in readers:
ReaderCheck(t) ==
  /\ callers[t].pc = "call"
  /\ callers' = [callers EXCEPT ![t].pc =
                   IF InReaders(ReaderKey(callers[t].langs)) THEN "return" ELSE "construct"]
  /\ UNCHANGED <<readers, built>>

\* easyocr.Reader(langs, ...) builds a new engine handle.
ReaderConstruct(t) ==
  /\ callers[t].pc = "construct"
  /\ LET h == [key |-> ReaderKey(callers[t].langs), id |-> Cardinality(built) + 1]
     IN /\ built' = built \cup {h}
        /\ callers' = [callers EXCEPT ![t].pc = "store", ![t].made = h]
  /\ UNCHANGED readers

\* readers[key] = <the new handle>
ReaderStore(t) ==
  /\ callers[t].pc = "store"
  /\ readers' = [readers EXCEPT ![ReaderKey(callers[t].langs)] = callers[t].made]
  /\ callers' = [callers EXCEPT ![t].pc = "return"]
  /\ UNCHANGED built

\* return readers[key]
ReaderReturn(t) ==
  /\ callers[t].pc = "return"
  /\ callers' = [callers EXCEPT ![t].pc = "done",
                                ![t].got = readers[ReaderKey(callers[t].langs)]]
  /\ UNCHANGED <<readers, built>>

GetReaderCheck ==
  /\ \E t \in 1..Len(callers) : ReaderCheck(t)
  /\ UNCHANGED <<pipeVars, cascadeVars, unitVars, docVars, entVars>>

GetReaderConstruct ==
  /\ \E t \in 1..Len(callers) : ReaderConstruct(t)
  /\ UNCHANGED <<pipeVars, cascadeVars, unitVars, docVars, entVars>>

GetReaderStore ==
  /\ \E t \in 1..Len(callers) : ReaderStore(t)
  /\ UNCHANGED <<pipeVars, cascadeVars, unitVars, docVars, entVars>>

GetReaderReturn ==
  /\ \E t \in 1..Len(callers) : ReaderReturn(t)
  /\ UNCHANGED <<pipeVars, cascadeVars, unitVars, docVars, entVars>>

\* ------------------------------------- several documents in one process
\* ocr_service.process_file runs once per request on the same event loop;
\* each PDF call of _pipeline_pdf makes its own asyncio.Semaphore(MAX_PARALLEL)
\* and the image branch calls the engine directly.
MaxDocs == 2

MaxSharedPages == 2

NoDoc == [kind |-> "none", pc |-> "idle", todo |-> 0, waiting |-> 0, sem |-> 0,
          holding |-> 0, bare |-> 0]

\* process_file has detected the file type; sem = asyncio.Semaphore(MAX_PARALLEL).
NewDoc(kind, pages) ==
  [kind |-> kind, pc |-> "start", todo |-> IF kind = "pdf" THEN pages ELSE 0,
   waiting |-> 0, sem |-> IF kind = "pdf" THEN cfg.MAX_PARALLEL ELSE 0, holding |-> 0,
   bare |-> 0]

DocsIdle == docs = <<>>

\* _pipeline_pdf: a batch is converted and one page task per page created.
DocConvertBatch(d) ==
  /\ docs[d].kind = "pdf" /\ docs[d].todo > 0
  /\ LET n == Min(cfg.CONVERT_BATCH, docs[d].todo)
     IN docs' = [docs EXCEPT ![d].todo = @ - n, ![d].waiting = @ + n, ![d].pc = "pipeline"]

\* _process_page: async with sem (the slot is taken).
DocAcquire(d) ==
  /\ docs[d].waiting > 0 /\ docs[d].sem > 0
  /\ docs' = [docs EXCEPT ![d].sem = @ - 1, ![d].waiting = @ - 1, ![d].holding = @ + 1]

\* _process_page: the engine call is over and the slot given back.
DocRelease(d) ==
  /\ docs[d].holding > 0
  /\ docs' = [docs EXCEPT ![d].holding = @ - 1, ![d].sem = @ + 1]

\* _pipeline_pdf: gather returns.
DocGather(d) ==
  /\ docs[d].kind = "pdf" /\ docs[d].pc = "pipeline"
  /\ docs[d].todo = 0 /\ docs[d].waiting = 0 /\ docs[d].holding = 0
  /\ docs' = [docs EXCEPT ![d].pc = "done"]

\* process_file, image branch: run_in_executor(_EXECUTOR, run_docai_image, img).
DocImageCall(d) ==
  /\ docs[d].kind = "image" /\ docs[d].pc = "start"
  /\ docs' = [docs EXCEPT ![d].bare = 1, ![d].pc = "calling"]

\* process_file, image branch: the engine call returned.
DocImageReturn(d) ==
  /\ docs[d].kind = "image" /\ docs[d].pc = "calling"
  /\ docs' = [docs EXCEPT ![d].bare = 0, ![d].pc = "done"]

SharedConvertBatch ==
  /\ \E d \in 1..Len(docs) : DocConvertBatch(d)
  /\ UNCHANGED <<pipeVars, cascadeVars, unitVars, readerVars, entVars>>

SharedAcquire ==
  /\ \E d \in 1..Len(docs) : DocAcquire(d)
  /\ UNCHANGED <<pipeVars, cascadeVars, unitVars, readerVars, entVars>>

SharedRelease ==
  /\ \E d \in 1..Len(docs) : DocRelease(d)
  /\ UNCHANGED <<pipeVars, cascadeVars, unitVars, readerVars, entVars>>

SharedGather ==
  /\ \E d \in 1..Len(docs) : DocGather(d)
  /\ UNCHANGED <<pipeVars, cascadeVars, unitVars, readerVars, entVars>>

SharedImageCall ==
  /\ \E d \in 1..Len(docs) : DocImageCall(d)
  /\ UNCHANGED <<pipeVars, cascadeVars, unitVars, readerVars, entVars>>

SharedImageReturn ==
  /\ \E d \in 1..Len(docs) : DocImageReturn(d)
  /\ UNCHANGED <<pipeVars, cascadeVars, unitVars, readerVars, entVars>>

\* ------------------------------------------------- the enterprise quota
\* enterprise_ocr: several requests for one enterprise are in the endpoint at
\* the same time; the handler awaits process_file_auto between the quota check
\* and save_enterprise_ocr_document, where other requests run.
MaxRequests == 2

MaxFilePages == 2

MaxQuota == 2

NoEnterprise == [pages_used |-> 0, total_pages |-> 0]

NoRequest == [pages |-> 0, countable |-> TRUE, pc |-> "idle", seen |-> 0, added |-> 0]

EntIdle == ent = NoEnterprise /\ reqs = <<>>

\* pages_in_file: count_pdf_pages(content), 1 when it raises or for an image.
pages_in_file(r) == IF r.countable THEN r.pages ELSE 1

\* enterprise_ocr up to the await of process_file_auto: ent_orm is loaded and
\* the quota checked against it.
CheckQuota(r) ==
  LET pages_remaining == IF ent.total_pages - ent.pages_used > 0
                         THEN ent.total_pages - ent.pages_used ELSE 0
  IN /\ reqs[r].pc = "check"
     /\ reqs' = [reqs EXCEPT ![r].seen = ent.pages_used,
                            ![r].pc = IF pages_in_file(reqs[r]) > pages_remaining
                                      THEN "402" ELSE "ocr"]
     /\ UNCHANGED ent

\* enterprise_ocr after process_file_auto returned: save_enterprise_ocr_document
\* sets pages_used = (ent.pages_used or 0) + result["pages"] and commits.  The
\* query returns the row this session loaded at the check, or the committed
\* row when the session had expired it.
SaveDocument(r) ==
  /\ reqs[r].pc = "ocr"
  /\ \E base \in {reqs[r].seen, ent.pages_used} :
       ent' = [ent EXCEPT !.pages_used = base + reqs[r].pages]
  /\ reqs' = [reqs EXCEPT ![r].pc = "done", ![r].added = reqs[r].pages]

EnterpriseCheckQuota ==
  /\ \E r \in 1..Len(reqs) : CheckQuota(r)
  /\ UNCHANGED <<pipeVars, cascadeVars, unitVars, readerVars, docVars>>

EnterpriseSaveDocument ==
  /\ \E r \in 1..Len(reqs) : SaveDocument(r)
  /\ UNCHANGED <<pipeVars, cascadeVars, unitVars, readerVars, docVars>>

\* State outside the single-document pipeline when it is not exercised.
ConcIdle == ReadersIdle /\ DocsIdle /\ EntIdle

\* ------------------------------------------------- run_tesseract's result
\* run_tesseract from the collected results on: the best valid Tesseract
\* attempt, the EasyOCR validation, the EasyOCR choice and the final fixes.
\* Pages are processed in mode "bangla" or "english"; the branches of
\* _apply_easyocr_ensemble that only mode "mixed" reaches are left out.
MaxAttempts == 2

AttemptTexts == {<<>>, <<" ">>, <<"k">>, <<"BN">>}

AttemptConfs == {0, 50, 95}

Attempts == [text : AttemptTexts, conf : AttemptConfs]

NoAttempt == [text |-> <<>>, conf |-> 0]

\* valid_results = [(t, c, m) for t, c, m in results if t and len(t.strip()) > 0]
valid_results(results) == SelectSeq(results, LAMBDA r : HasContent(r.text))

\* max(valid_results, key=lambda x: x[1]): the first result of the highest
\* confidence.
RECURSIVE MaxByConf(_)
MaxByConf(rs) ==
  IF Len(rs) = 1 THEN rs[1]
  ELSE LET m == MaxByConf(Tail(rs))
       IN IF rs[1].conf >= m.conf THEN rs[1] ELSE m

\* _apply_easyocr_ensemble(text, langs, easyocr_info), for langs without "en"
apply_easyocr_ensemble(text, langs, easyocr_info) ==
  IF ~Truthy(text) \/ ~easyocr_info THEN text
  ELSE IF "bn" \notin langs THEN text
  ELSE filter_hallucinated_english(text, langs)

\* fix_common_ocr_errors(text, langs, mode)
fix_common_ocr_errors(text, langs, mode) ==
  IF ~Truthy(text) THEN text
  ELSE Strip(IF mode = "bangla" THEN filter_hallucinated_english(text, {"bn"}) ELSE text)

\* run_tesseract(img, langs, mode) once results, the EasyOCR pass (easy) and
\* the EasyOCR English detection (easyocr_info) are in.
run_tesseract(results, easy, easyocr_info, langs, mode) ==
  LET valid == valid_results(results)
      best == IF valid # <<>> THEN MaxByConf(valid) ELSE NoAttempt
      validated == IF Truthy(best.text) /\ mode = "bangla"
                   THEN apply_easyocr_ensemble(best.text, {"bn"}, easyocr_info)
                   ELSE best.text
      chosen == IF "bn" \in langs /\ mode = "bangla"
                THEN easyocr_select(validated, best.conf, easy.text, easy.conf)
                ELSE [text |-> validated, conf |-> best.conf]
  IN [text |-> fix_common_ocr_errors(chosen.text, langs, mode), conf |-> chosen.conf]

RECURSIVE AttemptsOfLen(_)
AttemptsOfLen(n) ==
  IF n = 0 THEN {<<>>}
  ELSE {Append(s, a) : s \in AttemptsOfLen(n - 1), a \in Attempts}

\* A page: what the Tesseract passes, the EasyOCR pass and the EasyOCR English
\* detection returned for it, and how it is to be read.
PageRuns ==
  [results : UNION {AttemptsOfLen(n) : n \in 1..MaxAttempts}, easy : Attempts,
   easyocr_info : BOOLEAN, langs : {{"bn"}, {"bn", "en"}}, mode : {"bangla", "english"}]

\* run_tesseract finishes for one page.
CallRunTesseract ==
  /\ fpc = "call"
  /\ ret' = [ret EXCEPT !.out = run_tesseract(arg.results, arg.easy, arg.easyocr_info,
                                              arg.langs, arg.mode)]
  /\ fpc' = "done"
  /\ UNCHANGED <<arg, pipeVars, cascadeVars, concVars>>

\* ------------------------------------------------- the DocAI confidence
\* Token scores are in hundredths (0..100 for the API's 0.0..1.0), the page
\* confidence in hundredths of a percentage point.
MaxTokens == 3

TokenScores == {0, 50, 99, 100}

NO_TOKEN_CONF == 9900

\* _extract_confidence(doc)
extract_confidence(tokens, tie_up) ==
  LET confs == SelectSeq(tokens, LAMBDA c : c > 0)
  IN IF confs # <<>>
     THEN RoundHundredths(SumSeq(confs) * 100, Len(confs), tie_up)
     ELSE NO_TOKEN_CONF

RECURSIVE TokensOfLen(_)
TokensOfLen(n) ==
  IF n = 0 THEN {<<>>}
  ELSE {Append(s, c) : s \in TokensOfLen(n - 1), c \in TokenScores}

\* The token scores DocAI returned for a page.
DocaiPages ==
  [tokens : UNION {TokensOfLen(n) : n \in 0..MaxTokens}, tie_up : BOOLEAN]

\* run_docai_page: the page dict's "confidence".
CallRunDocaiPage ==
  /\ fpc = "call"
  /\ ret' = [ret EXCEPT !.out = extract_confidence(arg.tokens, arg.tie_up)]
  /\ fpc' = "done"
  /\ UNCHANGED <<arg, pipeVars, cascadeVars, concVars>>

Init == (\E c \in Configs : PipeInit(c)) /\ CascadeIdle /\ UnitIdle /\ ConcIdle

Next == PipeNext

Spec == Init /\ [][Next]_vars

InitCascade ==
  /\ PipeInit(Config(1, 1, 1, 1, "local", {}, 0))
  /\ ConcIdle
  /\ cin \in CascadeInputs
  /\ cout = NoOutput
  /\ cpc = "call"
  /\ UnitIdle

NextCascade == CallProcessPage

SpecCascade == InitCascade /\ [][NextCascade]_vars

InitFilter ==
  /\ PipeInit(Config(1, 1, 1, 1, "local", {}, 0))
  /\ ConcIdle
  /\ CascadeIdle
  /\ arg \in FilterInputs
  /\ ret = NoRet
  /\ fpc = "call"

NextFilter == CallFilter \/ CallFilterAgain

SpecFilter == InitFilter /\ [][NextFilter]_vars

InitMerge ==
  /\ PipeInit(Config(1, 1, 1, 1, "local", {}, 0))
  /\ ConcIdle
  /\ CascadeIdle
  /\ arg \in MergeInputs
  /\ ret = NoRet
  /\ fpc = "call"

NextMerge == CallMerge \/ CallMergeSwapped

SpecMerge == InitMerge /\ [][NextMerge]_vars

InitAuto ==
  /\ PipeInit(Config(1, 1, 1, 1, "local", {}, 0))
  /\ ConcIdle
  /\ CascadeIdle
  /\ arg \in Requests
  /\ ret = NoRet
  /\ fpc = "call"

NextAuto == CallEntry \/ CallEntryAgain

SpecAuto == InitAuto /\ [][NextAuto]_vars

InitSelect ==
  /\ PipeInit(Config(1, 1, 1, 1, "local", {}, 0))
  /\ ConcIdle
  /\ CascadeIdle
  /\ arg \in Users
  /\ ret = NoRet
  /\ fpc = "call"

NextSelect == CallSelect \/ CallSelectAgain

SpecSelect == InitSelect /\ [][NextSelect]_vars

InitAggregate ==
  /\ PipeInit(Config(1, 1, 1, 1, "local", {}, 0))
  /\ ConcIdle
  /\ CascadeIdle
  /\ arg \in Documents
  /\ ret = NoRet
  /\ fpc = "call"

NextAggregate == CallAggregate

SpecAggregate == InitAggregate /\ [][NextAggregate]_vars

\* MaxCallers page threads make their first call of get_reader.
InitReaders ==
  /\ PipeInit(Config(1, 1, 1, 1, "local", {}, 0))
  /\ CascadeIdle
  /\ UnitIdle
  /\ readers = [k \in ReaderKeys |-> NoHandle]
  /\ callers \in [1..MaxCallers -> {[NoCaller EXCEPT !.langs = l, !.pc = "call"] : l \in CallerLangs}]
  /\ built = {}
  /\ DocsIdle
  /\ EntIdle

NextReaders == GetReaderCheck \/ GetReaderConstruct \/ GetReaderStore \/ GetReaderReturn

SpecReaders == InitReaders /\ [][NextReaders]_vars

\* MaxDocs requests are in process_file at the same time.
InitShared ==
  /\ \E l \in 1..MaxLimit, b \in 1..MaxBatch : PipeInit(Config(1, b, l, 1, "docai", {}, 0))
  /\ CascadeIdle
  /\ UnitIdle
  /\ ReadersIdle
  /\ \E kinds \in [1..MaxDocs -> {"pdf", "image"}], pages \in [1..MaxDocs -> 1..MaxSharedPages] :
       docs = [d \in 1..MaxDocs |-> NewDoc(kinds[d], pages[d])]
  /\ EntIdle

NextShared ==
  \/ SharedConvertBatch
  \/ SharedAcquire
  \/ SharedRelease
  \/ SharedGather
  \/ SharedImageCall
  \/ SharedImageReturn

SpecShared == InitShared /\ [][NextShared]_vars

\* MaxRequests enterprise_ocr requests of one enterprise.
InitEnterprise ==
  /\ PipeInit(Config(1, 1, 1, 1, "local", {}, 0))
  /\ CascadeIdle
  /\ UnitIdle
  /\ ReadersIdle
  /\ DocsIdle
  /\ \E t \in 1..MaxQuota, u \in 0..MaxQuota :
       u <= t /\ ent = [pages_used |-> u, total_pages |-> t]
  /\ reqs \in [1..MaxRequests ->
                 {[NoRequest EXCEPT !.pages = n, !.countable = c, !.pc = "check"] :
                    n \in 1..MaxFilePages, c \in BOOLEAN}]

NextEnterprise == EnterpriseCheckQuota \/ EnterpriseSaveDocument

SpecEnterprise == InitEnterprise /\ [][NextEnterprise]_vars

InitPage ==
  /\ PipeInit(Config(1, 1, 1, 1, "local", {}, 0))
  /\ ConcIdle
  /\ CascadeIdle
  /\ arg \in PageRuns
  /\ ret = NoRet
  /\ fpc = "call"

NextPage == CallRunTesseract

SpecPage == InitPage /\ [][NextPage]_vars

InitDocaiPage ==
  /\ PipeInit(Config(1, 1, 1, 1, "local", {}, 0))
  /\ ConcIdle
  /\ CascadeIdle
  /\ arg \in DocaiPages
  /\ ret = NoRet
  /\ fpc = "call"

NextDocaiPage == CallRunDocaiPage

SpecDocaiPage == InitDocaiPage /\ [][NextDocaiPage]_vars

\* The pipeline under a fair scheduler: the event loop runs every callback
\* that is ready, an idle worker thread takes the next work item, and every
\* conversion and every engine call comes to an end.
Fairness ==
  /\ WF_vars(StartPipeline)
  /\ WF_vars(WorkerStart)
  /\ WF_vars(ConvertFinish)
  /\ WF_vars(EngineFinish)
  /\ WF_vars(LoopConvDone)
  /\ WF_vars(LoopTaskStart)
  /\ WF_vars(LoopEngineDone)
  /\ WF_vars(LoopWake)

\* The configurations explored for liveness: up to LivePages pages, which
\* already exceed every concurrency limit and batch size of Configs, with a
\* pool of one or more workers shared by conversions and engine calls.
LivePages == 3

LiveConfigs == {c \in Configs : c.total_pages <= LivePages}

InitLive ==
  (\E c \in LiveConfigs : PipeInit(c)) /\ CascadeIdle /\ UnitIdle /\ ConcIdle

SpecLive == InitLive /\ [][Next]_vars /\ Fairness

\* -------------------------------------------- Scenario E of the specification
\* A 12-page document, batch size 4, concurrency limit 5, every page renders,
\* no engine call fails; the worker pool has one or two threads.
ScenarioE == [pages |-> 12, batch |-> 4, limit |-> 5, pools |-> {1, 2}]

InitE ==
  \E w \in ScenarioE.pools :
    /\ PipeInit(Config(ScenarioE.pages, ScenarioE.batch, ScenarioE.limit, w, "docai", {}, 0))
    /\ CascadeIdle
    /\ UnitIdle
    /\ ConcIdle

SpecE == InitE /\ [][Next]_vars

\* ================================================================== claims
Created == {all_tasks[i] : i \in 1..Len(all_tasks)}

\* Page tasks that hold a semaphore slot.
Holders == {p \in DOMAIN tstate : tstate[p] \in {"granted", "inflight"}}

\* Page engine calls queued on or running in the thread pool.
EngineCalls ==
  {execQueue[i].first : i \in {k \in 1..Len(execQueue) : execQueue[k].kind = "page"}}
  \cup {it.first : it \in {x \in running : x.kind = "page"}}

\* The texts the engine calls returned, in ascending order of page number.
TextsInPageOrder ==
  LET ps == SortedSeq(Created) IN [i \in 1..Len(ps) |-> tresult[ps[i]].text]

\* C1: whatever the order in which the page tasks completed, the per-page
\* list of a returned document is strictly ascending by page number and the
\* document text is the page texts joined in that order.
C1_PageOrder ==
  outcome.status = "ok" =>
    /\ \A i \in 1..(Len(outcome.all_pages) - 1) :
         outcome.all_pages[i].page_number < outcome.all_pages[i + 1].page_number
    /\ {outcome.all_pages[i].page_number : i \in 1..Len(outcome.all_pages)} = Created
    /\ outcome.text = Join(TextsInPageOrder)

\* A document of at least two pages was returned after its page tasks
\* completed in fully reversed order.
C1_Witness ==
  /\ outcome.status = "ok"
  /\ Len(outcome.all_pages) >= 2
  /\ completion.descending

\* C2: the page tasks holding a slot, and the page engine calls in the thread
\* pool, never exceed the configured limit.
C2_ConcurrencyBound ==
  /\ Cardinality(Holders) <= cfg.MAX_PARALLEL
  /\ Cardinality(EngineCalls) <= cfg.MAX_PARALLEL

\* More pages than the limit and a batch larger than the limit: the limit is
\* reached and a page task waits for a slot.
C2_Witness ==
  /\ cfg.total_pages > cfg.MAX_PARALLEL
  /\ cfg.path = "docai" /\ cfg.CONVERT_BATCH > cfg.MAX_PARALLEL
  /\ Cardinality(Holders) = cfg.MAX_PARALLEL
  /\ semWaiters # <<>>

\* C3: in the pipelined PDF path a failed engine call does not fail the
\* document: once process_file has finished, the caller has a result with an
\* entry for every page task, the failed ones with empty text and confidence 0.
C3_FailedPageIsDegraded ==
  (cfg.path = "docai" /\ pc \in {"done", "error"}
     /\ \E p \in Created : tstate[p] = "failed")
  => /\ outcome.status = "ok"
     /\ \A p \in Created :
          \E i \in 1..Len(outcome.all_pages) :
            /\ outcome.all_pages[i].page_number = p
            /\ tstate[p] = "failed" =>
                 (outcome.all_pages[i].text = Str(<<>>)
                  /\ outcome.all_pages[i].confidence = 0)

\* C4: 12 pages, batch 4, limit 5: when no engine call of pages 1-4 had
\* returned by the time the conversion of the second batch returned, the
\* conversion of pages 9-12 starts while a dispatch task of pages 1-4 is still
\* unfinished, whatever the size of the thread pool.
C4_ConversionOverlapsDispatch ==
  LET second == ScenarioE.batch + 1
      third == 2 * ScenarioE.batch + 1
      firstBatch == 1..ScenarioE.batch
  IN (/\ atConvStart[third].started
      /\ atConvEnd[second].ended
      /\ atConvEnd[second].returned \cap firstBatch = {})
     => ~(firstBatch \subseteq atConvStart[third].finished)

\* C5: a returned document of an N-page source has exactly the pages 1..N
\* and reports N pages, whatever number of images the conversions returned.
C5_EveryPageHasAnEntry ==
  (cfg.path = "docai" /\ outcome.status = "ok") =>
    /\ Len(outcome.all_pages) = cfg.total_pages
    /\ \A i \in 1..Len(outcome.all_pages) : outcome.all_pages[i].page_number = i
    /\ outcome.pages = cfg.total_pages

\* C6: a document result exists only when every page task created for the
\* document has finished and no page engine call is queued or running.
C6_AggregationIsABarrier ==
  outcome.status = "ok" =>
    /\ \A p \in Created : tstate[p] \in {"ok", "failed"}
    /\ EngineCalls = {}
    /\ Holders = {}

\* A result was produced for a document of several pages whose tasks did not
\* finish in page order.
C6_Witness ==
  /\ outcome.status = "ok"
  /\ Len(all_tasks) >= 3
  /\ completion.last # all_tasks[Len(all_tasks)]

\* C7: when a page task failed, what process_file hands to the caller still
\* holds the result of every sibling that completed.
C7_SiblingResultsPreserved ==
  \A p, q \in Created :
    (tstate[p] = "failed" /\ tstate[q] = "ok" /\ outcome.status # "none")
    => \E i \in 1..Len(outcome.all_pages) : outcome.all_pages[i] = tresult[q]

\* C8: the confidence process_page returns is at least that of its primary
\* pass.
C8_CascadeMonotone == cpc = "done" => cout.confidence >= cin.c1

\* The raw pass ran and scored lower than the primary pass.
C8_Witness ==
  /\ cpc = "done"
  /\ cin.c1 < GOOD_CONF /\ cin.c2 < cin.c1
  /\ cout.confidence = cin.c1

Calls(name) == \E i \in 1..Len(cout.calls) : cout.calls[i] = name

\* C9 as stated: a primary pass of 90 or more is the only strategy invoked,
\* for every value of CONFIDENCE_THRESHOLD.
C9_NoStrategyAfterGood ==
  (cpc = "done" /\ cin.c1 >= GOOD_CONF) => cout.calls = <<"primary">>

\* C9 amended: after a primary pass of 90 or more the raw pass is never
\* invoked, and the remote fallback is invoked exactly when the primary
\* confidence is below CONFIDENCE_THRESHOLD; with a threshold of at most 90
\* (the default) no further strategy is invoked.
C9_Amended ==
  (cpc = "done" /\ cin.c1 >= GOOD_CONF) =>
    /\ ~Calls("raw")
    /\ Calls("docai") <=> cin.c1 < cin.threshold
    /\ cin.threshold <= GOOD_CONF => cout.calls = <<"primary">>

\* A primary pass of 95 under the default threshold: nothing else is invoked.
C9_Witness ==
  /\ cpc = "done"
  /\ cin.c1 = 95 /\ cin.threshold = DEFAULT_CONFIDENCE_THRESHOLD
  /\ cout.calls = <<"primary">>

\* C10: when the remote fallback succeeds, the page text is the string the
\* remote engine produced and the confidence is the override confidence.
C10_FallbackTextIsRemoteText ==
  (cpc = "done" /\ Calls("docai") /\ cin.docai_ok) =>
    /\ cout.text = Str(cin.docai_text)
    /\ cout.confidence = OVERRIDE_CONF

\* Page tasks of the local path whose remote fallback raised: the fallback
\* was needed and the task's text is still a str.
FallbackRaised ==
  {p \in Created : /\ cfg.path = "local" /\ tstate[p] = "ok"
                   /\ CallsDocai(PageItem(p, tjpeg[p]))
                   /\ tresult[p].text.kind = "str"}

\* C11: a page whose remote fallback raised does not abort the document:
\* process_file returns a result with an entry for every page task, the entry
\* of such a page holds the best local text and confidence, and a page on
\* which every strategy failed is recorded with empty text and confidence 0.
C11_FailedPageNeverAborts ==
  (cfg.path = "local" /\ pc \in {"done", "error"} /\ FallbackRaised # {}) =>
    /\ outcome.status = "ok"
    /\ Len(outcome.all_pages) = Len(all_tasks)
    /\ \A p \in FallbackRaised :
         \E i \in 1..Len(outcome.all_pages) :
           /\ outcome.all_pages[i].page_number = p
           /\ outcome.all_pages[i].text = Pass2(LocalInputs(tjpeg[p], FALSE)).text
           /\ outcome.all_pages[i].confidence = Pass2(LocalInputs(tjpeg[p], FALSE)).conf
           /\ tjpeg[p] \in cfg.blank =>
                (outcome.all_pages[i].text = Str(<<>>)
                 /\ outcome.all_pages[i].confidence = 0)

\* The tokens of a text, and those of them that satisfy a test.
TokensOf(text) == Split(text)

NoEnglishToken(token) == ~Search(token, ENGLISH_PATTERN)

EnglishOnlyToken(token) ==
  /\ Search(token, ENGLISH_PATTERN)
  /\ ~Search(token, BANGLA_PATTERN)
  /\ ~Search(token, ARABIC_PATTERN)

\* C12: the hallucination filter is idempotent: filtering its own output
\* with the same script set changes nothing.
C12_FilterIdempotent == fpc = "done" => ret.again = ret.out

\* A Bangla-only request whose text lost a Latin token and had the Latin
\* letters stripped from a mixed token, filtered twice.
C12_Witness ==
  /\ fpc = "done"
  /\ arg.langs = {"bn"}
  /\ arg.text = <<"BN", "k", " ", "g">>
  /\ ret.out = <<"BN">>

\* C13: when the requested script set excludes Latin, the output is the
\* input's tokens without Latin letters, in order, together with the
\* allow-listed Latin-only tokens; every other Latin-only token is dropped.
C13_KeepsTargetAndAllowListed ==
  LET tokens == TokensOf(arg.text)
      mixed(t) == ~NoEnglishToken(t) /\ ~EnglishOnlyToken(t)
      expected(t) == NoEnglishToken(t) \/ t \in ALLOWED_TOKENS
  IN (fpc \in {"once", "done"} /\ "en" \notin arg.langs
      /\ \A i \in 1..Len(tokens) : ~mixed(tokens[i]))
     => TokensOf(ret.out) = SelectSeq(tokens, expected)

\* C14: when the requested script set excludes Latin, a token mixing the
\* target script and Latin letters is kept unchanged if and only if its Latin
\* letters are at most 30% of the token, and otherwise is replaced by what is
\* left of it without its Latin letters.
C14_MixedTokenThirtyPercent ==
  LET tokens == TokensOf(arg.text)
      t == tokens[1]
      target == (IF "bn" \in arg.langs THEN BANGLA_PATTERN ELSE {})
                \cup (IF "ar" \in arg.langs THEN ARABIC_PATTERN ELSE {})
      keeps == 10 * CountOf(t, ENGLISH_PATTERN) <= 3 * Len(t)
  IN (/\ fpc \in {"once", "done"} /\ "en" \notin arg.langs
      /\ Len(tokens) = 1
      /\ Search(t, ENGLISH_PATTERN) /\ Search(t, target)
      /\ \A i \in 1..Len(t) : t[i] \in ENGLISH_PATTERN \cup target)
     => ret.out = (IF keeps THEN t ELSE RemoveEnglish(t))

\* C15: when the two candidates report the same confidence and both have
\* text, merging them in either order gives the same text and confidence, for
\* ensemble and for the Tesseract/EasyOCR selection.
C15_MergeOrderInsensitiveOnTies ==
  (/\ fpc = "done"
   /\ arg.a_conf = arg.b_conf
   /\ HasContent(arg.a_text) /\ HasContent(arg.b_text))
  => /\ ret.out.ens = ret.again.ens
     /\ ret.out.sel = ret.again.sel

\* The primary result A and the secondary result B of the selection.
Primary == [text |-> arg.a_text, conf |-> arg.a_conf]

Secondary == [text |-> arg.b_text, conf |-> arg.b_conf]

RuleA == ~HasContent(arg.a_text) /\ HasContent(arg.b_text)

RuleB == arg.b_conf > arg.a_conf + EASY_MARGIN

RuleC == arg.a_conf < WEAK_CONF /\ arg.b_conf >= arg.a_conf - EASY_MARGIN

RuleD ==
  /\ Len(Strip(arg.b_text)) > 2 * Len(Strip(arg.a_text))
  /\ arg.b_conf >= LONGER_MIN_CONF

\* C16 as stated: the selection returns the secondary result in the cases
\* (a), (b), (c) and the primary result in every other case.
C16_ExactlyThreeRules ==
  fpc \in {"once", "done"} =>
    ret.out.sel = (IF RuleA \/ RuleB \/ RuleC THEN Secondary ELSE Primary)

\* C16 amended: the selection returns the secondary result exactly when the
\* secondary text is not empty and (a), (b), (c) or (d) holds, where (d) is:
\* the secondary text is more than twice as long as the primary text and the
\* secondary confidence is at least 50; otherwise it returns the primary.
C16_Amended ==
  fpc \in {"once", "done"} =>
    ret.out.sel = (IF Truthy(arg.b_text) /\ (RuleA \/ RuleB \/ RuleC \/ RuleD)
                   THEN Secondary ELSE Primary)

\* A strong primary result kept against a secondary result that is better by
\* exactly the margin.
C16_Witness ==
  /\ fpc = "done"
  /\ arg.a_text = <<"x">> /\ arg.a_conf = WEAK_CONF
  /\ arg.b_text = <<"y">> /\ arg.b_conf = WEAK_CONF + EASY_MARGIN
  /\ ret.out.sel = Primary

\* The messages of a payload-too-large rejection by the Mistral API.
SizeRejections == {"413", "Payload Too Large", "Request size limit"}

\* The premium engine is selected and cannot take the document: it is above
\* the limit after compression, or the API call is made and rejects it.
StillTooLarge ==
  /\ arg.entry = "process_file_auto"
  /\ select_ocr_engine(arg.user) = "mistral"
  /\ MistralLen(arg.file, arg.env) > MISTRAL_MAX_FILE_BYTES

RejectedBySize ==
  /\ arg.entry = "process_file_auto"
  /\ select_ocr_engine(arg.user) = "mistral"
  /\ MistralLen(arg.file, arg.env) <= MISTRAL_MAX_FILE_BYTES
  /\ detect_file_type(arg.file) # "unknown"
  /\ arg.env.mistral \in SizeRejections

\* C17: when the premium engine cannot take a document because of its size,
\* process_file_auto never raises the size rejection; what it returns comes
\* from the DocAI family, and it returns a result whenever DocAI can process
\* the document.
C17_SizeRejectionRoutesToDocai ==
  (fpc \in {"once", "done"} /\ (StillTooLarge \/ RejectedBySize)) =>
    /\ ret.out.error \notin SizeRejections
    /\ ret.out.status = "ok" =>
         (ret.out.engine = "Google Document AI" /\ ret.out.text = arg.file.text)
    /\ (arg.env.docai_ok /\ (detect_file_type(arg.file) = "pdf" \/ arg.file.opens))
         => ret.out.status = "ok"

\* The API rejected the document as too large and the caller got the DocAI
\* result.
C17_Witness ==
  /\ fpc = "done"
  /\ RejectedBySize
  /\ arg.env.mistral = "Payload Too Large"
  /\ ret.out.status = "ok"
  /\ ret.out.calls = <<"mistral", "docai">>

\* C18: select_ocr_engine answers "mistral" exactly for a User whose role is
\* SUPER_USER or ADMIN or who has subscription pages remaining, "docai" for
\* every other caller, and answers the same when called again.
C18_EngineByTier ==
  fpc \in {"once", "done"} =>
    /\ ret.out \in {"mistral", "docai"}
    /\ ret.out = "mistral" <=>
         (/\ arg.kind = "User"
          /\ (arg.role \in {"super_user", "admin"} \/ arg.total - arg.used > 0))
    /\ fpc = "done" => ret.again = ret.out

\* A regular user who has used up the subscription gets the standard engine.
C18_Witness ==
  /\ fpc = "done"
  /\ arg.kind = "User" /\ arg.role = "user"
  /\ arg.total > 0 /\ arg.used >= arg.total
  /\ ret.out = "docai"

\* The content starts with none of the magic numbers.
NoMagic(head) ==
  /\ ~StartsWith(head, PDF_MAGIC)
  /\ \A m \in IMAGE_MAGICS : ~StartsWith(head, m)
  /\ ~(StartsWith(head, RIFF) /\ Contains(head, WEBP))

\* C19: detect_file_type answers "unknown" for a content shorter than 10
\* bytes or without a magic number; processing such a content that no decoder
\* opens raises the unsupported-format error and returns no result.
C19_UnknownIsRejected ==
  fpc \in {"once", "done"} =>
    /\ (arg.file.len < MIN_DETECT_LEN \/ NoMagic(arg.file.head))
         => detect_file_type(arg.file) = "unknown"
    /\ (detect_file_type(arg.file) = "unknown" /\ ~arg.file.opens)
         => /\ ret.out.status = "error"
            /\ ret.out.error = "Unsupported file format"
            /\ ret.out.text = NoText
            /\ ret.out.calls = <<>>

\* A 5-byte content that starts like a PDF was rejected.
C19_Witness ==
  /\ fpc = "done"
  /\ arg.file.len = 5
  /\ StartsWith(arg.file.head, PDF_MAGIC)
  /\ ret.out.status = "error"

\* C20: two requests for the same bytes and caller with different hints
\* report the same languages and mode, those the auto-detector computes from
\* the extracted text, on process_file_auto and on process_file.
C20_LanguagesIgnoreHint ==
  (fpc = "done" /\ ret.out.status = "ok" /\ ret.again.status = "ok") =>
    /\ ret.out.languages = ret.again.languages
    /\ ret.out.mode = ret.again.mode
    /\ ret.out.languages = detect_language(ret.out.text).langs
    /\ ret.out.mode = detect_language(ret.out.text).mode

\* C21: the document confidence is the arithmetic mean of the confidences of
\* the returned pages, and 0 when there are no pages.
C21_DocumentConfidenceIsMean ==
  fpc = "done" /\ "confs" \in DOMAIN arg =>
    IF arg.confs = <<>> THEN ret.out.num = 0
    ELSE ret.out.num * Len(arg.confs) = SumSeq(arg.confs) * ret.out.den

\* C21 as the code has it: the DocAI and local paths return the mean and the
\* Mistral path the mean rounded to two decimal places; 0 when there are no
\* pages.
C21_Amended ==
  fpc = "done" /\ "confs" \in DOMAIN arg =>
    IF arg.confs = <<>> THEN ret.out.num = 0
    ELSE IF arg.path = "mistral"
         THEN /\ ret.out.den = 1
              /\ 2 * Abs(ret.out.num * Len(arg.confs) - SumSeq(arg.confs)) <= Len(arg.confs)
         ELSE ret.out.num * Len(arg.confs) = SumSeq(arg.confs) * ret.out.den

C21_Witness ==
  /\ fpc = "done" /\ "confs" \in DOMAIN arg
  /\ arg.path = "mistral"
  /\ Len(arg.confs) = 3
  /\ SumSeq(arg.confs) % 3 = 2
  /\ ret.out.num * 3 > SumSeq(arg.confs)

\* C22: under any interleaving of concurrent first-use calls of get_reader,
\* at most one engine handle is constructed per cache key and all callers of
\* a key receive that same handle.
C22_OneHandlePerKey ==
  /\ \A k \in ReaderKeys : Cardinality({h \in built : h.key = k}) <= 1
  /\ \A t, u \in 1..Len(callers) :
       /\ callers[t].pc = "done" /\ callers[u].pc = "done"
       /\ ReaderKey(callers[t].langs) = ReaderKey(callers[u].langs)
       => callers[t].got = callers[u].got

\* C23: the in-flight limit is global: over all documents processed at the
\* same time the page engine calls holding a slot never exceed the configured
\* limit, and no page engine call is made without a slot.
C23_GlobalInFlightLimit ==
  /\ SumSeq([d \in 1..Len(docs) |-> docs[d].holding]) <= cfg.MAX_PARALLEL
  /\ \A d \in 1..Len(docs) : docs[d].bare = 0

\* C24: under any interleaving of concurrent enterprise_ocr requests
\* pages_used never exceeds total_pages, and a request answered with HTTP 402
\* adds nothing to pages_used.
C24_QuotaNeverExceeded ==
  /\ ent.pages_used <= ent.total_pages
  /\ \A r \in 1..Len(reqs) : reqs[r].pc = "402" => reqs[r].added = 0

\* C25: a page's final text is empty only if no attempt for the page produced
\* non-whitespace output, and its confidence is never negative.
C25_TextEmptyOnlyIfNoOutput ==
  fpc = "done" /\ "easy" \in DOMAIN arg =>
    /\ ret.out.conf >= 0
    /\ (\/ HasContent(arg.easy.text) /\ "bn" \in arg.langs /\ arg.mode = "bangla"
        \/ \E i \in 1..Len(arg.results) : HasContent(arg.results[i].text))
       => ret.out.text # <<>>

\* C26: the DocAI page confidence is derived from the returned token scores:
\* it is 100 times their mean (to two decimals), lies in [0, 100], and a page
\* without any token score is not given a high confidence (GOOD_CONF or more).
C26_ConfidenceFromTokenScores ==
  fpc = "done" /\ "tokens" \in DOMAIN arg =>
    /\ ret.out >= 0 /\ ret.out <= 100 * 100
    /\ arg.tokens # <<>> =>
         2 * Abs(ret.out * Len(arg.tokens) - SumSeq(arg.tokens) * 100) <= Len(arg.tokens)
    /\ arg.tokens = <<>> => ret.out < GOOD_CONF * 100

\* C27: the batch ranges of _pipeline_pdf are contiguous, disjoint and cover
\* exactly 1..N with batch_end <= N, and every page of 1..N is converted once
\* and dispatched in exactly one page task whose page_number is the page's
\* position in the document.
C27_BatchesCoverAndDispatchOnce ==
  (cfg.path = "docai" /\ pc \in {"gather", "done", "error"}) =>
    LET starts == {p \in 1..cfg.total_pages : atConvStart[p].started}
    IN /\ \A p \in 1..cfg.total_pages :
            Cardinality({bs \in starts : bs <= p /\ p <= BatchEnd(bs)}) = 1
       /\ \A bs \in starts : BatchEnd(bs) <= cfg.total_pages
       /\ \A p \in 1..cfg.total_pages :
            /\ Cardinality({i \in 1..Len(all_tasks) : all_tasks[i] = p}) = 1
            /\ tjpeg[p] = p

\* C28: every page task that took a slot gives it back exactly once, also when
\* its engine call raised: the held slots are the tasks inside "async with
\* sem", never fewer than 0, and 0 again once all page tasks have finished.
C28_SlotsReleasedExactlyOnce ==
  LET held == cfg.MAX_PARALLEL - sem
  IN /\ held >= 0
     /\ held = Cardinality(Holders)
     /\ (pc \in {"gather", "done", "error"} /\ Created \subseteq Finished(tstate))
          => held = 0

\* All page tasks of a document have finished, one of them by an exception,
\* after a task had to wait for the slot.
C28_Witness ==
  /\ pc \in {"done", "error"}
  /\ Len(all_tasks) > cfg.MAX_PARALLEL
  /\ Created \subseteq Finished(tstate)
  /\ \E p \in Created : tstate[p] = "failed"
  /\ sem = cfg.MAX_PARALLEL

\* C29: process_file_auto never gives the Mistral engine more than
\* MISTRAL_MAX_FILE_BYTES: a larger (possibly compressed) payload goes to
\* DocAI instead, and DocAI as the route-around gets the original bytes.
C29_MistralPayloadWithinLimit ==
  (fpc \in {"once", "done"} /\ "entry" \in DOMAIN arg /\ arg.entry = "process_file_auto") =>
    LET r == ret.out
    IN /\ \A i \in 1..Len(r.calls) :
            /\ r.calls[i] = "mistral" => r.sent[i] <= MISTRAL_MAX_FILE_BYTES
            /\ r.calls[i] = "docai" => r.sent[i] = arg.file.len
       /\ (select_ocr_engine(arg.user) = "mistral"
             /\ MistralLen(arg.file, arg.env) > MISTRAL_MAX_FILE_BYTES)
          => /\ \A i \in 1..Len(r.calls) : r.calls[i] = "docai"
             /\ r.calls = <<>> => r.error = "Unsupported file format"

\* A Mistral-tier caller's file stays above the limit (compression did not
\* help) and DocAI processed its original bytes.
C29_Witness ==
  /\ fpc = "done" /\ "entry" \in DOMAIN arg /\ arg.entry = "process_file_auto"
  /\ select_ocr_engine(arg.user) = "mistral"
  /\ arg.file.len > MISTRAL_MAX_FILE_BYTES
  /\ ret.out.status = "ok"
  /\ ret.out.calls = <<"docai">>
  /\ ret.out.sent = <<arg.file.len>>

\* C30: with conversions and engine calls that terminate and a fair
\* scheduler, the pipeline eventually returns (or raises) for every page
\* count, batch size, limit and pool size, and every created page task
\* eventually gets a slot: sharing the thread pool between conversions and
\* engine calls does not deadlock.  (Having returned and having got a slot
\* both last once true, so one "eventually" covers both.)
C30_PipelineEventuallyReturns ==
  <>(pc \in {"done", "error"} /\ Created \subseteq Holders \cup Finished(tstate))

\* A page task waits for a slot while the only worker thread runs a
\* conversion and a page engine call is queued behind it.
C30_Witness ==
  /\ pc = "done"
  /\ cfg.pool = 1
  /\ cfg.total_pages > cfg.MAX_PARALLEL
  /\ cfg.total_pages > cfg.CONVERT_BATCH
  /\ Created = 1..cfg.total_pages
  /\ Finished(tstate) = Created
  /\ \E p \in 1..cfg.total_pages :
        atConvStart[p].started /\ atConvStart[p].finished # {}

====
